---- MODULE Spec2Model ----
\* CogniVerse: the conversation data model (ConversationMessage, Conversation)
\* and the conversation store (ChatManager) of src/utils/chat_manager.py,
\* as state machines over the Streamlit session state.
EXTENDS Integers, Sequences, FiniteSets, TLC

VARIABLES
    now,        \* the wall clock read by datetime.now(), in ticks
    nextId,     \* the next value str(uuid.uuid4()) hands out
    ss,         \* st.session_state: the keys conversations, current_conversation_id
    convs,      \* ChatManager.conversations: insertion-ordered id -> Conversation
    last,       \* the last call made on the store and how it ended
    conv,       \* one Conversation object driven through its own API
    cpre,       \* that Conversation before its last call
    clast,      \* the last call made on that Conversation
    tin,        \* argument of Conversation._generate_title_from_content
    tout,       \* its result
    fin,        \* the uploaded file handed to a file processor
    fout,       \* what the processor made of it
    gw,         \* GeminiClient: response_cache and last_request_time
    gclock,     \* the clock time.time() and datetime.now() read, in tenths of a second
    glast,      \* the last generate_response call: what it did and returned
    ghist,      \* what earlier calls left: the last API call, the texts generated
    sconvs      \* Sidebar.chat_manager.conversations, the second store

vars == <<now, nextId, ss, convs, last, conv, cpre, clast, tin, tout, fin, fout, gw, gclock, glast, ghist, sconvs>>

\* ---------------------------------------------------------------- bounds

MaxTime == 1          \* ticks the clock makes while a store runs
TicksPerDay == 2      \* clock resolution: ticks in one day
MaxConvs == 3         \* conversations a store holds at most
MaxMsgs == 4          \* messages a stored conversation holds at most
MaxPreloaded == 2     \* persisted entries the store is constructed over
MaxAlloc == 3         \* uuids a store run draws at most
MaxConvMsgs == 2      \* messages the lone Conversation object holds at most
MaxConvTime == 1      \* the clock stops here while that object is driven
MaxPad == 2           \* whitespace characters around a title input
MaxSlack == 2         \* how far a title input's length strays from TitleLimit
MaxPages == 2         \* pages a PDF holds at most
MaxElements == 3      \* body elements a Word document holds at most
MaxSide == 2          \* pixels an image is wide at most
MaxCalls == 2         \* generate_response calls a client answers
MaxIdle == 0          \* tenths of a second a wait goes beyond the cache expiry

\* ------------------------------------------------------- python strings
\* A str is a sequence of one-character strings.

IsSpace(c) == c \in {" ", "\n", "\t"}

RECURSIVE LStrip(_)
LStrip(s) == IF s = <<>> \/ ~IsSpace(Head(s)) THEN s ELSE LStrip(Tail(s))

RECURSIVE RStrip(_)
RStrip(s) ==
    IF s = <<>> \/ ~IsSpace(s[Len(s)]) THEN s ELSE RStrip(SubSeq(s, 1, Len(s) - 1))

\* str.strip()
Strip(s) == RStrip(LStrip(s))

\* s[:n]
Prefix(s, n) == SubSeq(s, 1, IF Len(s) < n THEN Len(s) ELSE n)

\* str.split(): the maximal runs of non-whitespace characters, in order
RECURSIVE SplitFrom(_, _, _)
SplitFrom(s, word, acc) ==
    IF s = <<>> THEN (IF word = <<>> THEN acc ELSE Append(acc, word))
    ELSE IF IsSpace(Head(s))
         THEN SplitFrom(Tail(s), <<>>, IF word = <<>> THEN acc ELSE Append(acc, word))
         ELSE SplitFrom(Tail(s), Append(word, Head(s)), acc)

Split(s) == SplitFrom(s, <<>>, <<>>)

\* " ".join(words)
RECURSIVE JoinSpace(_)
JoinSpace(words) ==
    IF words = <<>> THEN <<>>
    ELSE IF Len(words) = 1 THEN words[1]
    ELSE words[1] \o <<" ">> \o JoinSpace(Tail(words))

UpperCase ==
    <<"A","B","C","D","E","F","G","H","I","J","K","L","M",
      "N","O","P","Q","R","S","T","U","V","W","X","Y","Z">>

LowerCase ==
    <<"a","b","c","d","e","f","g","h","i","j","k","l","m",
      "n","o","p","q","r","s","t","u","v","w","x","y","z">>

\* str.lower, one character
LowerChar(c) ==
    IF \E i \in DOMAIN UpperCase : UpperCase[i] = c
    THEN LowerCase[CHOOSE i \in DOMAIN UpperCase : UpperCase[i] = c]
    ELSE c

\* str.lower
Lower(s) == [i \in DOMAIN s |-> LowerChar(s[i])]

\* `sub in s`
Contains(sub, s) ==
    \E k \in 0..(Len(s) - Len(sub)) : SubSeq(s, k + 1, k + Len(sub)) = sub

\* s.replace(a, b) for one-character a and b
Replace(s, a, b) == [i \in DOMAIN s |-> IF s[i] = a THEN b ELSE s[i]]

\* s.endswith(suffix)
EndsWith(s, suffix) ==
    /\ Len(suffix) <= Len(s)
    /\ SubSeq(s, Len(s) - Len(suffix) + 1, Len(s)) = suffix

\* s.startswith(prefix)
StartsWith(s, prefix) ==
    /\ Len(prefix) <= Len(s)
    /\ SubSeq(s, 1, Len(prefix)) = prefix

\* l[-n:]: the whole of l for n = 0, since -0 is 0
LastSlice(l, n) ==
    IF n = 0 \/ n >= Len(l) THEN l
    ELSE IF n > 0 THEN SubSeq(l, Len(l) - n + 1, Len(l))
    ELSE SubSeq(l, 1 - n, Len(l))

DefaultTitle ==
    <<"N","e","w"," ","C","o","n","v","e","r","s","a","t","i","o","n">>

Ellipsis == <<".", ".", ".">>

TitleLimit == 50

\* Conversation._generate_title_from_content
GenerateTitle(content) ==
    LET cut  == Prefix(Strip(content), TitleLimit)
        full == IF Len(content) > TitleLimit THEN cut \o Ellipsis ELSE cut
        title == JoinSpace(Split(full))
    IN  IF title = <<>> THEN DefaultTitle ELSE title

\* ------------------------------------------------------------ timestamps
\* A datetime is a number of clock ticks. isoformat() writes the whole part
\* and the fraction, and leaves the fraction out when it is zero (as it
\* leaves out zero microseconds); fromisoformat() reads both forms.

\* isoformat() writing the whole part only
IsoFormatWhole(t) == <<t \div TicksPerDay>>

IsoFormat(t) ==
    IF t % TicksPerDay = 0 THEN <<t \div TicksPerDay>>
    ELSE <<t \div TicksPerDay, t % TicksPerDay>>

FromIsoFormat(s) ==
    IF Len(s) = 1 THEN s[1] * TicksPerDay ELSE s[1] * TicksPerDay + s[2]

\* timedelta(days=d)
Days(d) == d * TicksPerDay

\* -------------------------------------------------- ConversationMessage

NoModel == "None"                    \* model_used=None
Truthy(m) == m # NoModel /\ m # ""   \* `if model_used:`

\* ConversationMessage.__init__ with a fresh id and timestamp=now
NewMessage(content, role, model_used, id, t) ==
    [id |-> id, content |-> content, role |-> role, timestamp |-> t,
     model_used |-> model_used, metadata |-> <<>>]

\* ConversationMessage.to_dict
MsgToDict(m) ==
    [id |-> m.id, content |-> m.content, role |-> m.role,
     timestamp |-> IsoFormat(m.timestamp), model_used |-> m.model_used,
     metadata |-> m.metadata]

\* ConversationMessage.from_dict
MsgFromDict(d) ==
    [id |-> d.id, content |-> d.content, role |-> d.role,
     timestamp |-> FromIsoFormat(d.timestamp), model_used |-> d.model_used,
     metadata |-> d.metadata]

\* --------------------------------------------------------- Conversation
\* metadata is a dict: `has` is the set of keys present; the value of an
\* absent key is kept at a fixed filler.

MetaKeys == {"total_messages", "models_used", "tags", "is_favorite"}

\* the metadata dict Conversation.__init__ builds
NewMetadata ==
    [has |-> MetaKeys, total_messages |-> 0, models_used |-> {},
     tags |-> <<>>, is_favorite |-> FALSE]

\* {}
EmptyMetadata == [NewMetadata EXCEPT !.has = {}]

\* Conversation.__init__(title, conversation_id=id, created_at=None) at time t
NewConversation(title, id, t) ==
    [id |-> id, title |-> title, created_at |-> t, updated_at |-> t,
     messages |-> <<>>, metadata |-> NewMetadata]

\* list(a_set): a sequence holding each element once
RECURSIVE SetToList(_)
SetToList(S) ==
    IF S = {} THEN <<>>
    ELSE LET x == CHOOSE y \in S : TRUE IN <<x>> \o SetToList(S \ {x})

\* set(a_list)
ListToSet(l) == {l[i] : i \in DOMAIN l}

\* Conversation.add_message counting the messages before its append
ConvAddMessageStaleCount(c, content, role, model_used, id, t) ==
    LET c1 == [c EXCEPT
                 !.messages = Append(@, NewMessage(content, role, model_used, id, t)),
                 !.updated_at = t,
                 !.metadata.has = @ \cup {"total_messages"},
                 !.metadata.total_messages = Len(c.messages)]
        c2 == IF Truthy(model_used)
              THEN [c1 EXCEPT !.metadata.models_used = @ \cup {model_used}]
              ELSE c1
        c3 == IF c2.title = DefaultTitle /\ role = "user" /\ Len(c2.messages) = 1
              THEN [c2 EXCEPT !.title = GenerateTitle(content)]
              ELSE c2
    IN  IF Truthy(model_used) /\ "models_used" \notin c.metadata.has
        THEN [conv |-> c1, raised |-> TRUE]
        ELSE [conv |-> c3, raised |-> FALSE]

\* Conversation.add_message deriving the title on any user message
ConvAddMessageRetitle(c, content, role, model_used, id, t) ==
    LET c1 == [c EXCEPT
                 !.messages = Append(@, NewMessage(content, role, model_used, id, t)),
                 !.updated_at = t,
                 !.metadata.has = @ \cup {"total_messages"},
                 !.metadata.total_messages = Len(c.messages) + 1]
        c2 == IF Truthy(model_used)
              THEN [c1 EXCEPT !.metadata.models_used = @ \cup {model_used}]
              ELSE c1
        c3 == IF c2.title = DefaultTitle /\ role = "user"
              THEN [c2 EXCEPT !.title = GenerateTitle(content)]
              ELSE c2
    IN  IF Truthy(model_used) /\ "models_used" \notin c.metadata.has
        THEN [conv |-> c1, raised |-> TRUE]
        ELSE [conv |-> c3, raised |-> FALSE]

\* Conversation.add_message leaving updated_at as it was
ConvAddMessageNoTouch(c, content, role, model_used, id, t) ==
    LET c1 == [c EXCEPT
                 !.messages = Append(@, NewMessage(content, role, model_used, id, t)),
                 !.metadata.has = @ \cup {"total_messages"},
                 !.metadata.total_messages = Len(c.messages) + 1]
        c2 == IF Truthy(model_used)
              THEN [c1 EXCEPT !.metadata.models_used = @ \cup {model_used}]
              ELSE c1
        c3 == IF c2.title = DefaultTitle /\ role = "user" /\ Len(c2.messages) = 1
              THEN [c2 EXCEPT !.title = GenerateTitle(content)]
              ELSE c2
    IN  IF Truthy(model_used) /\ "models_used" \notin c.metadata.has
        THEN [conv |-> c1, raised |-> TRUE]
        ELSE [conv |-> c3, raised |-> FALSE]

\* Conversation.add_message: the object after the call and whether the call
\* raised (KeyError on metadata['models_used']); what was assigned before
\* the raise stays assigned.
ConvAddMessage(c, content, role, model_used, id, t) ==
    LET c1 == [c EXCEPT
                 !.messages = Append(@, NewMessage(content, role, model_used, id, t)),
                 !.updated_at = t,
                 !.metadata.has = @ \cup {"total_messages"},
                 !.metadata.total_messages = Len(c.messages) + 1]
        c2 == IF Truthy(model_used)
              THEN [c1 EXCEPT !.metadata.models_used = @ \cup {model_used}]
              ELSE c1
        c3 == IF c2.title = DefaultTitle /\ role = "user" /\ Len(c2.messages) = 1
              THEN [c2 EXCEPT !.title = GenerateTitle(content)]
              ELSE c2
    IN  IF Truthy(model_used) /\ "models_used" \notin c.metadata.has
        THEN [conv |-> c1, raised |-> TRUE]
        ELSE [conv |-> c3, raised |-> FALSE]

\* `self.metadata['models_used']` in to_dict raises KeyError without the key
CanToDict(c) == "models_used" \in c.metadata.has

\* Conversation.to_dict (defined where CanToDict holds)
ConvToDict(c) ==
    [id |-> c.id, title |-> c.title,
     created_at |-> IsoFormat(c.created_at),
     updated_at |-> IsoFormat(c.updated_at),
     has_messages |-> TRUE,
     messages |-> [i \in DOMAIN c.messages |-> MsgToDict(c.messages[i])],
     has_metadata |-> TRUE,
     metadata |-> [c.metadata EXCEPT !.models_used = SetToList(@)]]

\* Conversation.from_dict: 'messages' and 'metadata' are read with defaults
\* (data.get), and 'models_used' is converted only when the metadata has it
ConvFromDict(d) ==
    [id |-> d.id, title |-> d.title,
     created_at |-> FromIsoFormat(d.created_at),
     updated_at |-> FromIsoFormat(d.updated_at),
     messages |-> IF d.has_messages
                  THEN [i \in DOMAIN d.messages |-> MsgFromDict(d.messages[i])]
                  ELSE <<>>,
     metadata |-> IF d.has_metadata
                  THEN [d.metadata EXCEPT
                          !.models_used = IF "models_used" \in d.metadata.has
                                          THEN ListToSet(@) ELSE {}]
                  ELSE EmptyMetadata]

\* Conversation.get_recent_messages
GetRecentMessages(c, count) ==
    IF c.messages # <<>> THEN LastSlice(c.messages, count) ELSE <<>>

\* ------------------------------------------- the variables a run leaves alone

NoCall == [op |-> "none", content |-> <<>>, role |-> "", model_used |-> NoModel,
           raised |-> FALSE, count |-> 0, ret |-> <<>>]

IdleConv == conv = <<>> /\ cpre = <<>> /\ clast = <<>>

IdleTitle == tin = <<>> /\ tout = <<>>

IdleFile == fin = <<>> /\ fout = <<>>

IdleGateway == gw = <<>> /\ gclock = 0 /\ glast = <<>> /\ ghist = <<>>

IdleSidebar == sconvs = <<>>

\* ------------------------------------- a Conversation driven through its API

Roles == {"user", "assistant"}
ModelArgs == {NoModel, "", "gemini-pro", "gemini-flash"}
Hi == <<"h", "i">>
Blank == <<" ", "\n">>
ConvContents == {Hi, Blank}
CustomTitle == <<"T", "r", "i", "p">>

\* conversation = Conversation(title=...)
ConvInit ==
    /\ now = 0
    /\ nextId = 2
    /\ \E title \in {DefaultTitle, CustomTitle} :
          /\ conv = NewConversation(title, 1, 0)
          /\ cpre = NewConversation(title, 1, 0)
    /\ clast = [NoCall EXCEPT !.op = "init"]

\* conversation.add_message(content, role, model_used)
ConvAdd ==
    /\ Len(conv.messages) < MaxConvMsgs
    /\ \E content \in ConvContents, role \in Roles, model_used \in ModelArgs :
          LET r == ConvAddMessage(conv, content, role, model_used, nextId, now)
          IN  /\ conv' = r.conv
              /\ cpre' = conv
              /\ clast' = [NoCall EXCEPT !.op = "add_message", !.content = content,
                                          !.role = role, !.model_used = model_used,
                                          !.raised = r.raised]
    /\ nextId' = nextId + 1
    /\ UNCHANGED <<now, ss, convs, last, tin, tout, fin, fout, gw, gclock, glast, ghist, sconvs>>

\* conversation = Conversation.from_dict(conversation.to_dict())
ConvRoundTrip ==
    /\ clast.op # "round_trip"
    /\ CanToDict(conv)
    /\ conv' = ConvFromDict(ConvToDict(conv))
    /\ cpre' = conv
    /\ clast' = [NoCall EXCEPT !.op = "round_trip"]
    /\ UNCHANGED <<now, nextId, ss, convs, last, tin, tout, fin, fout, gw, gclock, glast, ghist, sconvs>>

\* conversation.get_recent_messages(count)
ConvRecent ==
    /\ \E count \in 0..(MaxConvMsgs + 1) :
          clast' = [NoCall EXCEPT !.op = "get_recent_messages", !.count = count,
                                  !.ret = GetRecentMessages(conv, count)]
    /\ conv' = conv
    /\ cpre' = conv
    /\ UNCHANGED <<now, nextId, ss, convs, last, tin, tout, fin, fout, gw, gclock, glast, ghist, sconvs>>

\* time passes between two calls
ConvTick ==
    /\ now < MaxConvTime
    /\ now' = now + 1
    /\ UNCHANGED <<nextId, ss, convs, last, conv, cpre, clast, tin, tout, fin, fout, gw, gclock, glast, ghist, sconvs>>

\* ------------------------------------------------ the title of one content

Spaces(n) == [i \in 1..n |-> " "]
Word(n) == [i \in 1..n |-> "a"]
Gap(n) == [i \in 1..n |-> IF i = 1 THEN " " ELSE "\n"]

WordLengths == {0, 1} \cup ((TitleLimit - MaxSlack)..(TitleLimit + MaxSlack))

\* contents around the limit: a word, a whitespace run inside it, padding
TitleInputs ==
    {Spaces(l) \o Word(n) \o Gap(g) \o Word(IF g = 0 THEN 0 ELSE 1) \o Spaces(t) :
        l \in 0..MaxPad, n \in WordLengths, g \in 0..2, t \in 0..MaxPad}

TitleInit ==
    /\ tin \in TitleInputs
    /\ tout = <<>>

\* title = self._generate_title_from_content(content)
TitleGenerate ==
    /\ tout = <<>>
    /\ tout' = GenerateTitle(tin)
    /\ UNCHANGED <<now, nextId, ss, convs, last, conv, cpre, clast, tin, fin, fout, gw, gclock, glast, ghist, sconvs>>

\* ---------------------------------------------------------- ChatManager
\* A store state is [convs, ss, nextId]; every operation maps one to the
\* next, with the value it returns (ret) and whether it raised.

NoneId == 0     \* None where an id or a Conversation is expected

\* `conv_id in self.conversations`
HasConv(cs, id) == \E i \in DOMAIN cs : cs[i].id = id

\* position of conv_id in the mapping
IndexOfConv(cs, id) == CHOOSE i \in DOMAIN cs : cs[i].id = id

\* ChatManager._load_from_session_state, on the empty mapping of __init__
LoadFromSessionState(s) ==
    IF s.has_conversations
    THEN [i \in DOMAIN s.conversations |-> ConvFromDict(s.conversations[i])]
    ELSE <<>>

\* ChatManager._save_to_session_state: the session state afterwards; nothing
\* is assigned when a to_dict raises
SaveToSessionState(cs, s) ==
    IF \A i \in DOMAIN cs : CanToDict(cs[i])
    THEN [ok |-> TRUE,
          ss |-> [s EXCEPT !.has_conversations = TRUE,
                           !.conversations = [i \in DOMAIN cs |-> ConvToDict(cs[i])]]]
    ELSE [ok |-> FALSE, ss |-> s]

\* create_new_conversation without its _save_to_session_state
CreateNewConversationUnsaved(S, title, t) ==
    LET c  == NewConversation(title, S.nextId, t)
        cs == Append(S.convs, c)
        s1 == [S.ss EXCEPT !.has_current = TRUE, !.current = c.id]
    IN  [convs |-> cs, ss |-> s1, nextId |-> S.nextId + 1,
         ret |-> c.id, raised |-> FALSE]

\* ChatManager.create_new_conversation
CreateNewConversation(S, title, t) ==
    LET c  == NewConversation(title, S.nextId, t)
        cs == Append(S.convs, c)
        s1 == [S.ss EXCEPT !.has_current = TRUE, !.current = c.id]
        sv == SaveToSessionState(cs, s1)
    IN  [convs |-> cs, ss |-> sv.ss, nextId |-> S.nextId + 1,
         ret |-> c.id, raised |-> ~sv.ok]

\* self.conversations.get(id)
GetConv(cs, id) == IF HasConv(cs, id) THEN id ELSE NoneId

\* ChatManager.get_current_conversation; ret is the id of the Conversation
\* returned, NoneId for None
GetCurrentConversation(S, t) ==
    LET cur == IF S.ss.has_current THEN S.ss.current ELSE NoneId
        made == CreateNewConversation(S, DefaultTitle, t)
        fresh == [made EXCEPT !.ret = IF made.raised THEN NoneId
                                      ELSE GetConv(made.convs, made.ret)]
    IN  IF cur = NoneId THEN fresh
        ELSE IF HasConv(S.convs, cur)
             THEN [convs |-> S.convs, ss |-> S.ss, nextId |-> S.nextId,
                   ret |-> cur, raised |-> FALSE]
             ELSE fresh

\* ChatManager.add_message appending the reply without its model
AddMessageNoModel(S, user_input, ai_response, model_used, t) ==
    LET g  == GetCurrentConversation(S, t)
        failed(cs, s, n) ==
            [convs |-> cs, ss |-> s, nextId |-> n, ret |-> FALSE, raised |-> FALSE]
    IN  IF g.raised \/ g.ret = NoneId THEN failed(g.convs, g.ss, g.nextId)
        ELSE
        LET i  == IndexOfConv(g.convs, g.ret)
            r1 == ConvAddMessage(g.convs[i], user_input, "user", NoModel, g.nextId, t)
            r2 == ConvAddMessage(r1.conv, ai_response, "assistant", NoModel,
                                 g.nextId + 1, t)
            cs2 == [g.convs EXCEPT ![i] = r2.conv]
            sv == SaveToSessionState(cs2, g.ss)
        IN  IF r2.raised \/ ~sv.ok THEN failed(cs2, g.ss, g.nextId + 2)
            ELSE [convs |-> cs2, ss |-> sv.ss, nextId |-> g.nextId + 2,
                  ret |-> TRUE, raised |-> FALSE]

\* ChatManager.add_message losing the reply when appending it raises
AddMessageReplyLost(S, user_input, ai_response, model_used, t) ==
    LET g  == GetCurrentConversation(S, t)
        failed(cs, s, n) ==
            [convs |-> cs, ss |-> s, nextId |-> n, ret |-> FALSE, raised |-> FALSE]
    IN  IF g.raised \/ g.ret = NoneId THEN failed(g.convs, g.ss, g.nextId)
        ELSE
        LET i  == IndexOfConv(g.convs, g.ret)
            r1 == ConvAddMessage(g.convs[i], user_input, "user", NoModel, g.nextId, t)
            r2 == ConvAddMessage(r1.conv, ai_response, "assistant", model_used,
                                 g.nextId + 1, t)
            cs1 == [g.convs EXCEPT ![i] = r1.conv]
            cs2 == [g.convs EXCEPT ![i] = r2.conv]
            sv == SaveToSessionState(cs2, g.ss)
        IN  IF r1.raised \/ r2.raised THEN failed(cs1, g.ss, g.nextId + 1)
            ELSE IF ~sv.ok THEN failed(cs2, g.ss, g.nextId + 2)
            ELSE [convs |-> cs2, ss |-> sv.ss, nextId |-> g.nextId + 2,
                  ret |-> TRUE, raised |-> FALSE]

\* ChatManager.add_message; every exception is caught and turned into False
AddMessage(S, user_input, ai_response, model_used, t) ==
    LET g  == GetCurrentConversation(S, t)
        failed(cs, s, n) ==
            [convs |-> cs, ss |-> s, nextId |-> n, ret |-> FALSE, raised |-> FALSE]
    IN  IF g.raised \/ g.ret = NoneId THEN failed(g.convs, g.ss, g.nextId)
        ELSE
        LET i  == IndexOfConv(g.convs, g.ret)
            r1 == ConvAddMessage(g.convs[i], user_input, "user", NoModel, g.nextId, t)
            r2 == ConvAddMessage(r1.conv, ai_response, "assistant", model_used,
                                 g.nextId + 1, t)
            cs1 == [g.convs EXCEPT ![i] = r1.conv]
            cs2 == [g.convs EXCEPT ![i] = r2.conv]
            sv == SaveToSessionState(cs2, g.ss)
        IN  IF r1.raised THEN failed(cs1, g.ss, g.nextId + 1)
            ELSE IF r2.raised \/ ~sv.ok THEN failed(cs2, g.ss, g.nextId + 2)
            ELSE [convs |-> cs2, ss |-> sv.ss, nextId |-> g.nextId + 2,
                  ret |-> TRUE, raised |-> FALSE]

\* `not conversation.metadata.get('is_favorite')` is false
IsFavorite(c) == "is_favorite" \in c.metadata.has /\ c.metadata.is_favorite

\* that test with <= for <
IsOldOrAtCutoff(c, cutoff) == c.updated_at <= cutoff /\ ~IsFavorite(c)

\* the test of cleanup_old_conversations for removing c
IsOld(c, cutoff) == c.updated_at < cutoff /\ ~IsFavorite(c)

\* cleanup_old_conversations taking the selected conversation as well
CleanupRemovingSelected(S, days_old, t) ==
    LET cutoff == t - Days(days_old)
        Gone(c) == IsOld(c, cutoff) \/ (S.ss.has_current /\ c.id = S.ss.current)
        Kept(c) == ~Gone(c)
        cs == SelectSeq(S.convs, Kept)
        sv == SaveToSessionState(cs, S.ss)
    IN  [convs |-> cs, ss |-> sv.ss, nextId |-> S.nextId,
         ret |-> Len(SelectSeq(S.convs, Gone)), raised |-> ~sv.ok]

\* ChatManager.cleanup_old_conversations
CleanupOldConversations(S, days_old, t) ==
    LET cutoff == t - Days(days_old)
        Gone(c) == IsOld(c, cutoff)
        Kept(c) == ~Gone(c)
        cs == SelectSeq(S.convs, Kept)
        sv == SaveToSessionState(cs, S.ss)
    IN  [convs |-> cs, ss |-> sv.ss, nextId |-> S.nextId,
         ret |-> Len(SelectSeq(S.convs, Gone)), raised |-> ~sv.ok]

\* Conversation.search_messages keeping the case of the query
SearchMessagesQueryCase(c, query) ==
    LET Matches(m) == Contains(query, Lower(m.content))
    IN  SelectSeq(c.messages, Matches)

\* Conversation.search_messages
SearchMessages(c, query) ==
    LET query_lower == Lower(query)
        Matches(m) == Contains(query_lower, Lower(m.content))
    IN  SelectSeq(c.messages, Matches)

\* l[:n] for n >= 0
FirstSlice(l, n) == IF n >= Len(l) THEN l ELSE SubSeq(l, 1, n)

MatchesShown == 3

\* list.sort(key=matching_messages, reverse=True): stable, so an entry goes
\* behind every entry that has at least as many matches
RECURSIVE SortByMatches(_)
SortByMatches(l) ==
    IF l = <<>> THEN <<>>
    ELSE LET e == l[Len(l)]
             rest == SortByMatches(SubSeq(l, 1, Len(l) - 1))
             AtLeast(x) == x.matching_messages >= e.matching_messages
             Fewer(x) == x.matching_messages < e.matching_messages
         IN  SelectSeq(rest, AtLeast) \o <<e>> \o SelectSeq(rest, Fewer)

\* ChatManager.search_conversations
RECURSIVE SearchResults(_, _)
SearchResults(cs, query) ==
    IF cs = <<>> THEN <<>>
    ELSE LET c == cs[Len(cs)]
             matching_messages == SearchMessages(c, query)
             rest == SearchResults(SubSeq(cs, 1, Len(cs) - 1), query)
         IN  IF matching_messages # <<>>
             THEN Append(rest,
                    [conversation_id |-> c.id,
                     conversation_title |-> c.title,
                     matching_messages |-> Len(matching_messages),
                     messages |->
                        LET shown == FirstSlice(matching_messages, MatchesShown)
                        IN  [k \in DOMAIN shown |-> MsgToDict(shown[k])]])
             ELSE rest

SearchConversations(S, query) ==
    [convs |-> S.convs, ss |-> S.ss, nextId |-> S.nextId,
     ret |-> SortByMatches(SearchResults(S.convs, query)), raised |-> FALSE]

\* ChatManager.get_conversation_history; a Conversation object is always
\* truthy, so only the None of a failed lookup gives the empty list
GetConversationHistory(S, conversation_id, t) ==
    LET g == IF conversation_id = NoneId
             THEN GetCurrentConversation(S, t)
             ELSE [convs |-> S.convs, ss |-> S.ss, nextId |-> S.nextId,
                   ret |-> GetConv(S.convs, conversation_id), raised |-> FALSE]
    IN  IF g.raised THEN [g EXCEPT !.ret = <<>>]
        ELSE IF g.ret = NoneId THEN [g EXCEPT !.ret = <<>>]
        ELSE [g EXCEPT !.ret = g.convs[IndexOfConv(g.convs, g.ret)].messages]

\* ChatManager.get_recent_history
GetRecentHistory(S, limit, t) ==
    LET h == GetConversationHistory(S, NoneId, t)
    IN  IF h.raised THEN h
        ELSE [h EXCEPT !.ret = IF h.ret # <<>> THEN LastSlice(h.ret, limit)
                                ELSE <<>>]

\* the export formats, as format.lower() is compared with them
Json == <<"j", "s", "o", "n">>
Csv == <<"c", "s", "v">>
Txt == <<"t", "x", "t">>

\* ChatManager._export_as_json (defined where CanToDict holds); the
\* document before json.dumps
ExportAsJson(c, t) ==
    [export_info |-> [exported_at |-> IsoFormat(t),
                      application |-> "CogniVerse",
                      version |-> "1.0.0"],
     conversation |-> ConvToDict(c)]

CsvHeader == <<"Timestamp", "Role", "Content", "Model Used">>

\* ChatManager._export_as_csv writing model_used as it is
ExportAsCsvRawModel(c) ==
    <<CsvHeader>> \o
    [i \in DOMAIN c.messages |->
        LET message == c.messages[i]
        IN  <<IsoFormat(message.timestamp),
              message.role,
              Replace(message.content, "\n", " "),
              message.model_used>>]

\* ChatManager._export_as_csv: the rows handed to csv.writer
ExportAsCsv(c) ==
    <<CsvHeader>> \o
    [i \in DOMAIN c.messages |->
        LET message == c.messages[i]
        IN  <<IsoFormat(message.timestamp),
              message.role,
              Replace(message.content, "\n", " "),
              IF Truthy(message.model_used) THEN message.model_used ELSE "N/A">>]

\* strftime('%Y-%m-%d %H:%M:%S') and strftime('%H:%M:%S')
DateTimeText(t) == <<t \div TicksPerDay, t % TicksPerDay>>
TimeText(t) == <<t % TicksPerDay>>

\* ChatManager._export_as_text: the lines before '\n'.join; every message is
\* followed by an empty line
ExportAsText(c) ==
    <<<<"Conversation: ", c.title>>,
      <<"Created: ", DateTimeText(c.created_at)>>,
      <<"Messages: ", Len(c.messages)>>,
      <<"=", 50>>,
      <<>>>> \o
    [k \in 1..(2 * Len(c.messages)) |->
        IF k % 2 = 0 THEN <<>>
        ELSE LET message == c.messages[(k + 1) \div 2]
             IN  <<"[", TimeText(message.timestamp), "] ",
                   IF message.role = "user" THEN "You" ELSE "AI",
                   ": ", message.content>>]

NoExport == [error |-> "", format |-> <<>>, data |-> <<>>]

\* ChatManager.export_conversation comparing format as it was given
ExportConversationCaseSensitive(S, conversation_id, format, t) ==
    LET g == IF conversation_id # NoneId
             THEN [convs |-> S.convs, ss |-> S.ss, nextId |-> S.nextId,
                   ret |-> GetConv(S.convs, conversation_id), raised |-> FALSE]
             ELSE GetCurrentConversation(S, t)
        fmt == format
        fails(e) == [g EXCEPT !.ret = [NoExport EXCEPT !.error = e],
                              !.raised = TRUE]
        gives(d) == [g EXCEPT !.ret = [NoExport EXCEPT !.format = fmt, !.data = d]]
    IN  IF g.raised THEN fails("KeyError")
        ELSE IF g.ret = NoneId THEN fails("ValueError: No conversation to export")
        ELSE LET c == g.convs[IndexOfConv(g.convs, g.ret)]
             IN  IF fmt = Json
                 THEN IF CanToDict(c) THEN gives(ExportAsJson(c, t))
                      ELSE fails("KeyError")
                 ELSE IF fmt = Csv THEN gives(ExportAsCsv(c))
                 ELSE IF fmt = Txt THEN gives(ExportAsText(c))
                 ELSE fails("ValueError: Unsupported export format")

\* ChatManager.export_conversation; ret.error names the exception raised,
\* a KeyError being the one of Conversation.to_dict
ExportConversation(S, conversation_id, format, t) ==
    LET g == IF conversation_id # NoneId
             THEN [convs |-> S.convs, ss |-> S.ss, nextId |-> S.nextId,
                   ret |-> GetConv(S.convs, conversation_id), raised |-> FALSE]
             ELSE GetCurrentConversation(S, t)
        fmt == Lower(format)
        fails(e) == [g EXCEPT !.ret = [NoExport EXCEPT !.error = e],
                              !.raised = TRUE]
        gives(d) == [g EXCEPT !.ret = [NoExport EXCEPT !.format = fmt, !.data = d]]
    IN  IF g.raised THEN fails("KeyError")
        ELSE IF g.ret = NoneId THEN fails("ValueError: No conversation to export")
        ELSE LET c == g.convs[IndexOfConv(g.convs, g.ret)]
             IN  IF fmt = Json
                 THEN IF CanToDict(c) THEN gives(ExportAsJson(c, t))
                      ELSE fails("KeyError")
                 ELSE IF fmt = Csv THEN gives(ExportAsCsv(c))
                 ELSE IF fmt = Txt THEN gives(ExportAsText(c))
                 ELSE fails("ValueError: Unsupported export format")

\* sum(len(conv.messages) for conv in self.conversations.values())
RECURSIVE TotalMessages(_)
TotalMessages(cs) ==
    IF cs = <<>> THEN 0 ELSE Len(Head(cs).messages) + TotalMessages(Tail(cs))

\* conversation.metadata.get('models_used', [])
ModelsUsedOf(c) ==
    IF "models_used" \in c.metadata.has THEN c.metadata.models_used ELSE {}

\* created_at.date()
DateOf(t) == t \div TicksPerDay

\* ChatManager.get_conversation_stats without its test for an empty store
GetConversationStatsUnguarded(S) ==
    LET cs == S.convs
        n  == Len(cs)
        models == UNION {ModelsUsedOf(cs[i]) : i \in DOMAIN cs}
        dates == {DateOf(cs[i].created_at) : i \in DOMAIN cs}
        out(r, e) == [convs |-> S.convs, ss |-> S.ss, nextId |-> S.nextId,
                      ret |-> r, raised |-> e]
    IN  IF n = 0
        THEN out([error |-> "ZeroDivisionError"], TRUE)
        ELSE out([total_conversations |-> n,
                  total_messages |-> TotalMessages(cs),
                  average_messages_per_conversation |->
                      [num |-> TotalMessages(cs), den |-> n],
                  most_used_models |->
                      [m \in models |->
                          Cardinality({i \in DOMAIN cs : m \in ModelsUsedOf(cs[i])})],
                  conversation_activity |->
                      [d \in dates |->
                          Cardinality({i \in DOMAIN cs : DateOf(cs[i].created_at) = d})],
                  oldest_conversation |->
                      CHOOSE t \in {cs[i].created_at : i \in DOMAIN cs} :
                          \A i \in DOMAIN cs : t <= cs[i].created_at,
                  newest_conversation |->
                      CHOOSE t \in {cs[i].created_at : i \in DOMAIN cs} :
                          \A i \in DOMAIN cs : t >= cs[i].created_at],
                 FALSE)

\* ChatManager.get_conversation_stats; the average is the quotient
\* total_messages / len(conversations), kept as its two terms
GetConversationStats(S) ==
    LET cs == S.convs
        n  == Len(cs)
        models == UNION {ModelsUsedOf(cs[i]) : i \in DOMAIN cs}
        dates == {DateOf(cs[i].created_at) : i \in DOMAIN cs}
        out(r, e) == [convs |-> S.convs, ss |-> S.ss, nextId |-> S.nextId,
                      ret |-> r, raised |-> e]
    IN  IF n = 0
        THEN out([total_conversations |-> 0,
                  total_messages |-> 0,
                  average_messages_per_conversation |-> 0,
                  most_used_models |-> <<>>,
                  conversation_activity |-> <<>>], FALSE)
        ELSE out([total_conversations |-> n,
                  total_messages |-> TotalMessages(cs),
                  average_messages_per_conversation |->
                      [num |-> TotalMessages(cs), den |-> n],
                  most_used_models |->
                      [m \in models |->
                          Cardinality({i \in DOMAIN cs : m \in ModelsUsedOf(cs[i])})],
                  conversation_activity |->
                      [d \in dates |->
                          Cardinality({i \in DOMAIN cs : DateOf(cs[i].created_at) = d})],
                  oldest_conversation |->
                      CHOOSE t \in {cs[i].created_at : i \in DOMAIN cs} :
                          \A i \in DOMAIN cs : t <= cs[i].created_at,
                  newest_conversation |->
                      CHOOSE t \in {cs[i].created_at : i \in DOMAIN cs} :
                          \A i \in DOMAIN cs : t >= cs[i].created_at],
                 FALSE)

\* CogniVerse._initialize_session_state: defaults for the keys not yet set
InitializeSessionState(s, id) ==
    [has_conversations |-> TRUE,
     conversations |-> IF s.has_conversations THEN s.conversations ELSE <<>>,
     has_current |-> TRUE,
     current |-> IF s.has_current THEN s.current ELSE id]

\* ------------------------------------- the session state a store starts over
\* The persisted entries are dicts Conversation.from_dict accepts: written by
\* to_dict, possibly marked favorite, possibly without the optional keys.

Ok == <<"o", "k">>

\* the shapes of a persisted entry: its kind, and whether it holds an exchange
EntryShapes ==
    {<<"complete", FALSE>>, <<"complete", TRUE>>, <<"favorite", TRUE>>,
     <<"no_metadata", FALSE>>}

StaleId == 3 * MaxPreloaded + 1
FirstFreeId == StaleId + 1

PersistedEntry(k, kind, exchanged) ==
    LET c0 == NewConversation(DefaultTitle, 3 * k - 2, 0)
        c1 == ConvAddMessage(c0, Hi, "user", NoModel, 3 * k - 1, 0).conv
        c2 == ConvAddMessage(c1, Ok, "assistant", "gemini-pro", 3 * k, 0).conv
        d  == ConvToDict(IF exchanged THEN c2 ELSE c0)
    IN  CASE kind = "complete" -> d
          [] kind = "favorite" -> [d EXCEPT !.metadata.is_favorite = TRUE]
          [] kind = "no_metadata" ->
                [d EXCEPT !.has_metadata = FALSE,
                          !.metadata = [EmptyMetadata EXCEPT !.models_used = <<>>]]

NoStoreCall == [op |-> "none", args |-> <<>>, ret |-> NoneId, raised |-> FALSE]

IdleStore == ss = <<>> /\ convs = <<>> /\ last = <<>>

\* self.chat_manager = ChatManager(), over any such session state whose
\* entries were written at time 0, a day ago
StoreInit ==
    /\ now = Days(1)
    /\ nextId = FirstFreeId
    /\ \E n \in 0..MaxPreloaded :
       \E shapes \in [1..n -> EntryShapes], hc \in BOOLEAN, hs \in BOOLEAN,
          cur \in {NoneId, StaleId} \cup {3 * k - 2 : k \in 1..n} :
          /\ hc \/ n = 0
          /\ hs \/ cur = NoneId
          /\ ss = [has_conversations |-> hc,
                   conversations |->
                       [k \in 1..n |-> PersistedEntry(k, shapes[k][1], shapes[k][2])],
                   has_current |-> hs, current |-> cur]
    /\ convs = LoadFromSessionState(ss)
    /\ last = [NoStoreCall EXCEPT !.op = "init"]

\* uuids left to draw
CanDraw(n) == nextId + n <= FirstFreeId + MaxAlloc

StoreState == [convs |-> convs, ss |-> ss, nextId |-> nextId]

Returned(r, op, args) ==
    /\ convs' = r.convs
    /\ ss' = r.ss
    /\ nextId' = r.nextId
    /\ last' = [op |-> op, args |-> args, ret |-> r.ret, raised |-> r.raised]
    /\ UNCHANGED <<now, conv, cpre, clast, tin, tout, fin, fout, gw, gclock, glast, ghist, sconvs>>

\* whether a call of get_current_conversation would create a conversation
Resolves ==
    /\ ss.has_current
    /\ ss.current # NoneId
    /\ HasConv(convs, ss.current)

StoreTitles == {DefaultTitle, CustomTitle}
StoreInputs == {Hi, Blank}
StoreModels == {"gemini-pro", ""}
DaysOld == {0, 1}

\* chat_manager.create_new_conversation(title)
DoCreate ==
    /\ Len(convs) < MaxConvs
    /\ CanDraw(1)
    /\ \E title \in StoreTitles :
          Returned(CreateNewConversation(StoreState, title, now),
                   "create_new_conversation", <<title>>)

\* chat_manager.get_current_conversation()
DoGetCurrent ==
    /\ Resolves \/ (Len(convs) < MaxConvs /\ CanDraw(1))
    /\ Returned(GetCurrentConversation(StoreState, now),
                "get_current_conversation", <<>>)

\* chat_manager.add_message(user_input, ai_response, model_used)
DoAddMessage ==
    /\ IF Resolves
       THEN /\ Len(convs[IndexOfConv(convs, ss.current)].messages) + 2 <= MaxMsgs
            /\ CanDraw(2)
       ELSE Len(convs) < MaxConvs /\ 2 <= MaxMsgs /\ CanDraw(3)
    /\ \E user_input \in StoreInputs, model_used \in StoreModels :
          Returned(AddMessage(StoreState, user_input, Ok, model_used, now),
                   "add_message", <<user_input, Ok, model_used>>)

\* chat_manager.cleanup_old_conversations(days_old)
DoCleanup ==
    /\ convs # <<>>
    /\ \E days_old \in DaysOld :
          Returned(CleanupOldConversations(StoreState, days_old, now),
                   "cleanup_old_conversations", <<days_old>>)

\* a new script run: CogniVerse.__init__ builds a ChatManager over the
\* session state, then fills in the session defaults
DoRerun ==
    /\ last.op # "rerun"
    /\ ss.has_current \/ CanDraw(1)
    /\ convs' = LoadFromSessionState(ss)
    /\ ss' = InitializeSessionState(ss, nextId)
    /\ nextId' = IF ss.has_current THEN nextId ELSE nextId + 1
    /\ last' = [NoStoreCall EXCEPT !.op = "rerun"]
    /\ UNCHANGED <<now, conv, cpre, clast, tin, tout, fin, fout, gw, gclock, glast, ghist, sconvs>>

\* time passes between two calls
StoreTick ==
    /\ now < Days(1) + MaxTime
    /\ now' = now + 1
    /\ last' = [NoStoreCall EXCEPT !.op = "tick"]
    /\ UNCHANGED <<nextId, ss, convs, conv, cpre, clast, tin, tout, fin, fout, gw, gclock, glast, ghist, sconvs>>

\* ------------------------------------------- the store's read operations

Loud == <<"H", "i", "\n">>
ReadInputs == {Hi, Loud}
ExportIds == {NoneId, 1, StaleId}
ExportFormats == {Json, Csv, Txt, <<"C", "S", "V">>, <<"x", "m", "l">>}
Limits == 0..(MaxMsgs + 1)
Queries == {<<>>, <<"H", "I">>, <<"i", " ">>, <<"k">>, <<"z">>}

\* chat_manager.add_message(user_input, ai_response, model_used)
DoSay ==
    /\ IF Resolves
       THEN /\ Len(convs[IndexOfConv(convs, ss.current)].messages) + 2 <= MaxMsgs
            /\ CanDraw(2)
       ELSE Len(convs) < MaxConvs /\ 2 <= MaxMsgs /\ CanDraw(3)
    /\ \E user_input \in ReadInputs, model_used \in StoreModels :
          Returned(AddMessage(StoreState, user_input, Ok, model_used, now),
                   "add_message", <<user_input, Ok, model_used>>)

ReadOps == {"export_conversation", "get_recent_history",
            "search_conversations", "get_conversation_stats"}

\* One read is made on each store state: what a read leaves behind is the
\* store get_current_conversation leaves behind, so a read made after
\* another read is the same read made after get_current_conversation.
CanRead == last.op \notin ReadOps

\* chat_manager.export_conversation(conversation_id, format)
DoExport ==
    /\ CanRead
    /\ \E conversation_id \in ExportIds, format \in ExportFormats :
          /\ conversation_id = NoneId =>
                (Resolves \/ (Len(convs) < MaxConvs /\ CanDraw(1)))
          /\ Returned(ExportConversation(StoreState, conversation_id, format, now),
                      "export_conversation", <<conversation_id, format>>)

\* chat_manager.get_recent_history(limit)
DoRecentHistory ==
    /\ CanRead
    /\ Resolves \/ (Len(convs) < MaxConvs /\ CanDraw(1))
    /\ \E limit \in Limits :
          Returned(GetRecentHistory(StoreState, limit, now),
                   "get_recent_history", <<limit>>)

\* chat_manager.search_conversations(query)
DoSearch ==
    /\ CanRead
    /\ \E query \in Queries :
          Returned(SearchConversations(StoreState, query),
                   "search_conversations", <<query>>)

\* chat_manager.get_conversation_stats()
DoStats ==
    /\ CanRead
    /\ Returned(GetConversationStats(StoreState), "get_conversation_stats", <<>>)

\* -------------------------------------------------------- file processors
\* A media type is a string compared as a whole; a file name is a str.

\* the methods each processor class defines, and those it inherits
BaseMethods == {"can_process", "process", "get_file_metadata", "_format_file_size"}

OwnMethods(cls) ==
    CASE cls = "TextFileProcessor" ->
            {"can_process", "process", "_create_text_preview", "_detect_text_format"}
      [] cls = "PDFProcessor" ->
            {"can_process", "process", "_extract_with_pdfplumber",
             "_extract_with_pypdf2", "_extract_pdf_metadata"}
      [] cls = "DocxProcessor" ->
            {"can_process", "process", "_extract_table_text",
             "_extract_docx_properties"}

\* whether self.<method> resolves on an instance of cls; an AttributeError
\* otherwise
HasMethod(cls, method) == method \in OwnMethods(cls) \cup BaseMethods

TextTypes == {"text/plain", "text/csv", "text/markdown", "application/json"}

TextExtensions ==
    {<<".", "t", "x", "t">>, <<".", "m", "d">>, <<".", "c", "s", "v">>,
     <<".", "j", "s", "o", "n">>, <<".", "l", "o", "g">>,
     <<".", "p", "y">>, <<".", "j", "s">>, <<".", "h", "t", "m", "l">>,
     <<".", "c", "s", "s">>}

ImageTypes == {"image/jpeg", "image/png", "image/gif", "image/bmp", "image/webp"}

ImageExtensions ==
    {<<".", "j", "p", "g">>, <<".", "j", "p", "e", "g">>,
     <<".", "p", "n", "g">>, <<".", "g", "i", "f">>,
     <<".", "b", "m", "p">>, <<".", "w", "e", "b", "p">>}

PdfType == "application/pdf"
DocxType ==
    "application/vnd.openxmlformats-officedocument.wordprocessingml.document"
CsvType == "text/csv"

\* the import flags PDF_AVAILABLE, DOCX_AVAILABLE and PANDAS_AVAILABLE are
\* fields of the build: [pdf, docx, pandas]

\* <Processor>.can_process(file_type, file_name)
CanProcess(h, file_type, file_name, build) ==
    LET name == Lower(file_name)
    IN  CASE h = "text" ->
                \/ file_type \in TextTypes
                \/ \E ext \in TextExtensions : EndsWith(name, ext)
          [] h = "pdf" ->
                build.pdf /\ (file_type = PdfType \/ EndsWith(name, <<".", "p", "d", "f">>))
          [] h = "docx" ->
                build.docx /\ (file_type = DocxType \/ EndsWith(name, <<".", "d", "o", "c", "x">>))
          [] h = "csv" ->
                build.pandas /\ (file_type = CsvType \/ EndsWith(name, <<".", "c", "s", "v">>))
          [] h = "image" ->
                \/ file_type \in ImageTypes
                \/ \E ext \in ImageExtensions : EndsWith(name, ext)

\* self.processors, in the order FileProcessor.__init__ lists them
Processors == <<"text", "pdf", "docx", "csv", "image">>

\* FileProcessor._find_processor: the processors asked, and the one returned
\* ("none" for None)
RECURSIVE FindFrom(_, _, _, _)
FindFrom(i, file_type, file_name, build) ==
    IF i > Len(Processors)
    THEN [consulted |-> Processors, handler |-> "none"]
    ELSE IF CanProcess(Processors[i], file_type, file_name, build)
    THEN [consulted |-> SubSeq(Processors, 1, i), handler |-> Processors[i]]
    ELSE FindFrom(i + 1, file_type, file_name, build)

FindProcessor(file_type, file_name, build) == FindFrom(1, file_type, file_name, build)

\* mimetypes.guess_type on the extensions of the files at hand; it looks the
\* extension up as written and then in lower case
GuessTable ==
    <<<<<<".", "c", "s", "v">>, "text/csv">>,
      <<<<".", "p", "d", "f">>, "application/pdf">>,
      <<<<".", "d", "o", "c", "x">>, DocxType>>,
      <<<<".", "p", "n", "g">>, "image/png">>,
      <<<<".", "t", "x", "t">>, "text/plain">>,
      <<<<".", "b", "i", "n">>, "application/octet-stream">>>>

\* FileProcessor._guess_file_type
GuessFileType(file_name) ==
    LET known == {i \in DOMAIN GuessTable :
                     EndsWith(Lower(file_name), GuessTable[i][1])}
    IN  IF known = {} THEN "application/octet-stream"
        ELSE GuessTable[CHOOSE i \in known : TRUE][2]

MaxFileSizeMb == 100

\* AppConfig.get_max_file_size_bytes
MaxFileSizeBytes == MaxFileSizeMb * 1024 * 1024

\* FileProcessor._create_fallback_content: what the text names; the size is
\* written in MB to two decimals
FallbackContent(file_name, file_type, file_size) ==
    [file |-> file_name, type |-> file_type,
     size_mb_hundredths |->
        LET mb == 1024 * 1024
        IN  (file_size \div mb) * 100 + ((file_size % mb) * 200 + mb) \div (2 * mb)]

\* what the process method of a processor can come to: neither PDFProcessor
\* nor DocxProcessor has the _create_text_preview its process calls, and the
\* AttributeError leaves process as a FileProcessingError
ProcessOutcomes(h) ==
    IF h = "pdf" /\ ~HasMethod("PDFProcessor", "_create_text_preview")
    THEN {"FileProcessingError"}
    ELSE IF h = "docx" /\ ~HasMethod("DocxProcessor", "_create_text_preview")
    THEN {"FileProcessingError"}
    ELSE {"content", "FileProcessingError"}

NoResult == [raised |-> FALSE, error |-> "", message |-> "", file_type |-> "",
             consulted |-> <<>>, handler |-> "none", processed |-> FALSE,
             kind |-> "", content |-> <<>>]

\* the exception uploaded_file.read() raises on a file it cannot read
ReadError == "OSError"

TooLarge == "File too large"
Unexpected == "Unexpected error processing file"
FailedToProcess == "Failed to process"

\* FileProcessor.process_file skipping the processors that decline from the
\* end of the list
ProcessFileLastWins(f, outcome) ==
    LET file_type == IF f.type # "" THEN f.type ELSE GuessFileType(f.name)
        accepting == {i \in DOMAIN Processors :
                         CanProcess(Processors[i], file_type, f.name, f.build)}
        last_one == CHOOSE i \in accepting : \A j \in accepting : j <= i
        r0 == [NoResult EXCEPT !.file_type = file_type]
    IN  IF ~f.readable
        THEN [NoResult EXCEPT !.raised = TRUE, !.error = "FileProcessingError",
                              !.message = Unexpected]
        ELSE IF f.size > MaxFileSizeBytes
        THEN [r0 EXCEPT !.raised = TRUE, !.error = "FileProcessingError",
                        !.message = TooLarge]
        ELSE IF accepting = {}
        THEN [r0 EXCEPT !.consulted = Processors, !.kind = "fallback",
                        !.content = FallbackContent(f.name, file_type, f.size)]
        ELSE LET r1 == [r0 EXCEPT !.consulted = Processors,
                                  !.handler = Processors[last_one],
                                  !.processed = TRUE]
             IN  IF outcome = "content"
                 THEN [r1 EXCEPT !.kind = "content"]
                 ELSE [r1 EXCEPT !.raised = TRUE, !.error = "FileProcessingError",
                                 !.message = FailedToProcess]

\* FileProcessor.process_file asking the processors before it looks at the
\* size
ProcessFileSizeCheckedLate(f, outcome) ==
    LET file_type == IF f.type # "" THEN f.type ELSE GuessFileType(f.name)
        found == FindProcessor(file_type, f.name, f.build)
        r0 == [NoResult EXCEPT !.file_type = file_type]
    IN  IF ~f.readable
        THEN [NoResult EXCEPT !.raised = TRUE, !.error = "FileProcessingError",
                              !.message = Unexpected]
        ELSE IF f.size > MaxFileSizeBytes
        THEN [r0 EXCEPT !.consulted = found.consulted, !.handler = found.handler,
                        !.raised = TRUE, !.error = "FileProcessingError",
                        !.message = TooLarge]
        ELSE IF found.handler = "none"
        THEN [r0 EXCEPT !.consulted = found.consulted, !.kind = "fallback",
                        !.content = FallbackContent(f.name, file_type, f.size)]
        ELSE LET r1 == [r0 EXCEPT !.consulted = found.consulted,
                                  !.handler = found.handler,
                                  !.processed = TRUE]
             IN  IF outcome = "content"
                 THEN [r1 EXCEPT !.kind = "content"]
                 ELSE [r1 EXCEPT !.raised = TRUE, !.error = "FileProcessingError",
                                 !.message = FailedToProcess]

\* FileProcessor.process_file without its last except clause
ProcessFileUnwrapped(f, outcome) ==
    LET file_type == IF f.type # "" THEN f.type ELSE GuessFileType(f.name)
        found == FindProcessor(file_type, f.name, f.build)
        r0 == [NoResult EXCEPT !.file_type = file_type]
    IN  IF ~f.readable
        THEN [NoResult EXCEPT !.raised = TRUE, !.error = ReadError]
        ELSE IF f.size > MaxFileSizeBytes
        THEN [r0 EXCEPT !.raised = TRUE, !.error = "FileProcessingError",
                        !.message = TooLarge]
        ELSE IF found.handler = "none"
        THEN [r0 EXCEPT !.consulted = found.consulted, !.kind = "fallback",
                        !.content = FallbackContent(f.name, file_type, f.size)]
        ELSE LET r1 == [r0 EXCEPT !.consulted = found.consulted,
                                  !.handler = found.handler,
                                  !.processed = TRUE]
             IN  IF outcome = "content"
                 THEN [r1 EXCEPT !.kind = "content"]
                 ELSE [r1 EXCEPT !.raised = TRUE, !.error = "FileProcessingError",
                                 !.message = FailedToProcess]

\* FileProcessor.process_file, with what the chosen processor's process
\* comes to: an exception of read() is wrapped by the last except clause, the
\* FileProcessingError of the size check and of a processor pass through
ProcessFile(f, outcome) ==
    LET file_type == IF f.type # "" THEN f.type ELSE GuessFileType(f.name)
        found == FindProcessor(file_type, f.name, f.build)
        r0 == [NoResult EXCEPT !.file_type = file_type]
    IN  IF ~f.readable
        THEN [NoResult EXCEPT !.raised = TRUE, !.error = "FileProcessingError",
                              !.message = Unexpected]
        ELSE IF f.size > MaxFileSizeBytes
        THEN [r0 EXCEPT !.raised = TRUE, !.error = "FileProcessingError",
                        !.message = TooLarge]
        ELSE IF found.handler = "none"
        THEN [r0 EXCEPT !.consulted = found.consulted, !.kind = "fallback",
                        !.content = FallbackContent(f.name, file_type, f.size)]
        ELSE LET r1 == [r0 EXCEPT !.consulted = found.consulted,
                                  !.handler = found.handler,
                                  !.processed = TRUE]
             IN  IF outcome = "content"
                 THEN [r1 EXCEPT !.kind = "content"]
                 ELSE [r1 EXCEPT !.raised = TRUE, !.error = "FileProcessingError",
                                 !.message = FailedToProcess]

\* ------------------------------------------------ one upload through dispatch

FileTypes == {"", "text/plain", CsvType, PdfType, DocxType, "image/png",
              "application/octet-stream"}

FileNames ==
    {<<"a", ".", "c", "s", "v">>, <<"A", ".", "C", "S", "V">>,
     <<"a", ".", "p", "d", "f">>, <<"a", ".", "d", "o", "c", "x">>,
     <<"a", ".", "p", "n", "g">>, <<"a", ".", "t", "x", "t">>,
     <<"a", ".", "b", "i", "n">>, <<"a">>}

FileSizes == {0, MaxFileSizeBytes, MaxFileSizeBytes + 1}

Builds == [pdf : BOOLEAN, docx : BOOLEAN, pandas : BOOLEAN]

\* an uploaded file: its declared type ("" when the browser gave none), its
\* name, whether read() gives its content and the length of that content, in
\* a build with some of the libraries
UploadInit ==
    /\ fin \in [type : FileTypes, name : FileNames, readable : BOOLEAN,
                size : FileSizes, build : Builds]
    /\ fout = <<>>

\* content = self.file_processor.process_file(uploaded_file)
DoProcessFile ==
    /\ fout = <<>>
    /\ \E outcome \in {"content", "FileProcessingError"} :
          /\ LET file_type == IF fin.type # "" THEN fin.type
                              ELSE GuessFileType(fin.name)
                 h == FindProcessor(file_type, fin.name, fin.build).handler
             IN  h # "none" => outcome \in ProcessOutcomes(h)
          /\ fout' = ProcessFile(fin, outcome)
    /\ UNCHANGED <<now, nextId, ss, convs, last, conv, cpre, clast, tin, tout, fin, gw, gclock, glast, ghist, sconvs>>

\* ------------------------------------------------- text out of a document

\* sep.join(parts)
RECURSIVE JoinWith(_, _)
JoinWith(parts, sep) ==
    IF parts = <<>> THEN <<>>
    ELSE IF Len(parts) = 1 THEN parts[1]
    ELSE parts[1] \o sep \o JoinWith(Tail(parts), sep)

\* s.rfind(c) counted from 1: 0 when c is not in s
RFind(s, c) ==
    IF \E i \in DOMAIN s : s[i] = c
    THEN CHOOSE i \in DOMAIN s : s[i] = c /\ \A j \in DOMAIN s : s[j] = c => j <= i
    ELSE 0

PreviewLimit == 500

\* TextFileProcessor._create_text_preview
CreateTextPreview(text) ==
    IF Len(text) <= PreviewLimit THEN text
    ELSE LET preview == Prefix(text, PreviewLimit)
             ends == {RFind(preview, "."), RFind(preview, "!"), RFind(preview, "?")}
             last_sentence == CHOOSE i \in ends : \A j \in ends : j <= i
             space == RFind(preview, " ")
         IN  IF (last_sentence - 1) * 10 > PreviewLimit * 7
             THEN Prefix(preview, last_sentence)
             ELSE (IF space = 0 THEN preview ELSE Prefix(preview, space - 1))
                  \o Ellipsis

\* what a process method gives back or raises
NoProcessed == [raised |-> FALSE, error |-> "", message |-> "", type |-> "",
                content |-> <<>>, preview |-> <<>>, metadata |-> <<>>,
                statistics |-> <<>>]

ProcessingError(message) ==
    [NoProcessed EXCEPT !.raised = TRUE, !.error = "FileProcessingError",
                        !.message = message]

\* -------------------------------------------------------- PDFProcessor
\* A PDF is what the two libraries make of it: the text each gives for every
\* page ("" for none), whether each raises on it, and whether reading its
\* metadata raises.

PdfMarker ==
    <<"[", "P", "D", "F", " ", "a", "p", "p", "e", "a", "r", "s", " ",
      "t", "o", " ", "c", "o", "n", "t", "a", "i", "n", " ", "m", "a",
      "i", "n", "l", "y", " ", "i", "m", "a", "g", "e", "s", " ", "o",
      "r", " ", "h", "a", "s", " ", "n", "o", " ", "e", "x", "t", "r",
      "a", "c", "t", "a", "b", "l", "e", " ", "t", "e", "x", "t", "]">>

\* _extract_with_pdfplumber and _extract_with_pypdf2: the pages that gave
\* text, two newlines between them; the empty text when the library raises
ExtractText(pages, fails) ==
    IF fails THEN <<>>
    ELSE LET HasText(page_text) == page_text # <<>>
         IN  JoinWith(SelectSeq(pages, HasText), <<"\n", "\n">>)

DecimalDigits == <<"0", "1", "2", "3", "4", "5", "6", "7", "8", "9">>

\* str(v) of a natural number
RECURSIVE Str(_)
Str(v) ==
    IF v < 10 THEN <<DecimalDigits[v + 1]>>
    ELSE Str(v \div 10) \o <<DecimalDigits[(v % 10) + 1]>>

Unknown == <<"u", "n", "k", "n", "o", "w", "n">>

\* PDFProcessor._extract_pdf_metadata: the page count as text, 'unknown' when
\* the reader raises
ExtractPdfMetadata(f) ==
    IF f.metadata_fails THEN [page_count |-> Unknown]
    ELSE [page_count |-> Str(Len(f.plumber))]

\* PDFProcessor.process
PdfProcess(f) ==
    IF ~f.available
    THEN ProcessingError("PDF processing libraries not available")
    ELSE LET first == ExtractText(f.plumber, f.plumber_fails)
             text == IF Strip(first) = <<>>
                     THEN ExtractText(f.pypdf2, f.pypdf2_fails)
                     ELSE first
             metadata == ExtractPdfMetadata(f)
             text_content == IF Strip(text) = <<>> THEN PdfMarker ELSE text
         IN  IF ~HasMethod("PDFProcessor", "_create_text_preview")
             THEN ProcessingError("Failed to process PDF")
             ELSE [NoProcessed EXCEPT
                     !.type = "pdf",
                     !.content = text_content,
                     !.preview = CreateTextPreview(text_content),
                     !.metadata = metadata,
                     !.statistics =
                        [character_count |-> Len(text_content),
                         word_count |-> Len(Split(text_content)),
                         extractable_text |-> Strip(text_content) # <<>>]]

PageTexts == {<<>>, <<" ", "\n">>, Hi}

PdfInit ==
    /\ \E n \in 1..MaxPages :
          fin \in [plumber : [1..n -> PageTexts], pypdf2 : [1..n -> PageTexts],
                   plumber_fails : BOOLEAN, pypdf2_fails : BOOLEAN,
                   metadata_fails : BOOLEAN, available : BOOLEAN]
    /\ fout = <<>>

\* result = processor.process(file_content, file_name, file_type)
DoPdfProcess ==
    /\ fout = <<>>
    /\ fout' = PdfProcess(fin)
    /\ UNCHANGED <<now, nextId, ss, convs, last, conv, cpre, clast, tin, tout, fin, gw, gclock, glast, ghist, sconvs>>

\* ------------------------------------------------------- DocxProcessor
\* A Word document is its body: paragraphs with a style name and a text,
\* tables of rows of cell texts, and the section properties that close it.

TagP == <<"p">>
TagTbl == <<"t", "b", "l">>
TagSectPr == <<"s", "e", "c", "t", "P", "r">>

Heading == <<"H", "e", "a", "d", "i", "n", "g">>
Heading1 == <<"H", "e", "a", "d", "i", "n", "g", " ", "1">>
Normal == <<"N", "o", "r", "m", "a", "l">>

TableStart == <<"\n", "[", "T", "A", "B", "L", "E", "]">>
TableEnd == <<"[", "/", "T", "A", "B", "L", "E", "]", "\n">>

NoElement == [tag |-> <<>>, style |-> <<>>, text |-> <<>>, rows |-> <<>>]

Paragraph(style, text) == [NoElement EXCEPT !.tag = TagP, !.style = style, !.text = text]
Table(rows) == [NoElement EXCEPT !.tag = TagTbl, !.rows = rows]
SectPr == [NoElement EXCEPT !.tag = TagSectPr]

\* DocxProcessor._extract_table_text
ExtractTableText(table) ==
    LET CellText(cell) == Replace(Strip(cell), "\n", " ")
        RowText(row) == JoinWith([k \in DOMAIN row |-> CellText(row[k])],
                                 <<" ", "|", " ">>)
    IN  JoinWith(<<TableStart>>
                 \o [r \in DOMAIN table.rows |-> RowText(table.rows[r])]
                 \o <<TableEnd>>, <<"\n">>)

\* the loop of DocxProcessor.process over doc.element.body from element i on,
\* with its two counters: the text_parts it appends
RECURSIVE WalkBody(_, _, _, _)
WalkBody(body, i, paragraph_count, table_count) ==
    LET IsP(e) == EndsWith(e.tag, <<"p">>)
        IsTbl(e) == EndsWith(e.tag, <<"t", "b", "l">>)
        paragraphs == SelectSeq(body, IsP)
        tables == SelectSeq(body, IsTbl)
    IN  IF i > Len(body) THEN <<>>
        ELSE IF IsP(body[i])
        THEN LET para == paragraphs[paragraph_count + 1]
                 part == IF Strip(para.text) = <<>> THEN <<>>
                         ELSE IF StartsWith(para.style, Heading)
                         THEN <<<<"\n">> \o para.style \o <<":", " ">> \o para.text
                                \o <<"\n">>>>
                         ELSE <<para.text>>
             IN  part \o WalkBody(body, i + 1, paragraph_count + 1, table_count)
        ELSE IF IsTbl(body[i])
        THEN LET part == IF table_count < Len(tables)
                         THEN <<ExtractTableText(tables[table_count + 1])>>
                         ELSE <<>>
             IN  part \o WalkBody(body, i + 1, paragraph_count, table_count + 1)
        ELSE WalkBody(body, i + 1, paragraph_count, table_count)

\* DocxProcessor.process
DocxProcess(f) ==
    IF ~f.available
    THEN ProcessingError("DOCX processing library not available")
    ELSE LET IsP(e) == EndsWith(e.tag, <<"p">>)
             IsTbl(e) == EndsWith(e.tag, <<"t", "b", "l">>)
             full_text == JoinWith(WalkBody(f.body, 1, 0, 0), <<"\n">>)
         IN  IF ~HasMethod("DocxProcessor", "_create_text_preview")
             THEN ProcessingError("Failed to process Word document")
             ELSE [NoProcessed EXCEPT
                     !.type = "docx",
                     !.content = full_text,
                     !.preview = CreateTextPreview(full_text),
                     !.statistics =
                        [paragraph_count |-> Len(SelectSeq(f.body, IsP)),
                         table_count |-> Len(SelectSeq(f.body, IsTbl)),
                         character_count |-> Len(full_text),
                         word_count |-> Len(Split(full_text))]]

DocxElements ==
    {Paragraph(Normal, Hi), Paragraph(Normal, <<" ">>), Paragraph(Heading1, Hi),
     Table(<<<<Hi, <<" ", "o", "\n", "k">>>>>>), SectPr}

DocxInit ==
    /\ \E n \in 0..MaxElements :
          fin \in [body : [1..n -> DocxElements], available : BOOLEAN]
    /\ fout = <<>>

\* result = processor.process(file_content, file_name, file_type)
DoDocxProcess ==
    /\ fout = <<>>
    /\ fout' = DocxProcess(fin)
    /\ UNCHANGED <<now, nextId, ss, convs, last, conv, cpre, clast, tin, tout, fin, gw, gclock, glast, ghist, sconvs>>

\* ------------------------------------------------------ ImageProcessor
\* An image is what Pillow and pytesseract make of it: whether Image.open
\* takes the bytes, the format and size it reports, and the text
\* image_to_string gives or that it raises. The build says which of the two
\* libraries the import at the head of the module found.

\* from PIL import Image; import pytesseract: OCR_AVAILABLE is set when both
\* imports succeed, the name Image is bound when the first does
OcrAvailable(build) == build.pil /\ build.pytesseract

ImageFileLabel == <<"I", "m", "a", "g", "e", " ", "f", "i", "l", "e", ":", " ">>
DimensionsLabel == <<"D", "i", "m", "e", "n", "s", "i", "o", "n", "s", ":", " ">>
PixelsLabel == <<" ", "p", "i", "x", "e", "l", "s">>
FormatLabel == <<"F", "o", "r", "m", "a", "t", ":", " ">>
TextLabel ==
    <<"\n", "T", "e", "x", "t", " ", "e", "x", "t", "r", "a", "c", "t",
    "e", "d", " ", "f", "r", "o", "m", " ", "i", "m", "a", "g", "e",
    ":", "\n">>
NoTextLabel ==
    <<"\n", "N", "o", " ", "t", "e", "x", "t", " ", "d", "e", "t", "e",
    "c", "t", "e", "d", " ", "i", "n", " ", "i", "m", "a", "g", "e",
    " ", "o", "r", " ", "O", "C", "R", " ", "n", "o", "t", " ", "a",
    "v", "a", "i", "l", "a", "b", "l", "e", ".">>

ImageResult == [raised |-> FALSE, error |-> "", message |-> "", type |-> "image",
                content |-> <<>>, preview |-> <<>>, extracted_text |-> <<>>,
                metadata |-> <<>>, statistics |-> <<>>]

\* ImageProcessor.process: without Pillow the name Image is unbound and
\* Image.open raises NameError, which the outer except clause turns into
\* FileProcessingError like any failure to open the image
ImageProcess(f) ==
    IF ~f.build.pil \/ ~f.valid
    THEN ProcessingError("Failed to process image")
    ELSE LET extracted_text ==
                 IF OcrAvailable(f.build) /\ ~f.ocr_raises
                 THEN Strip(f.ocr_text)
                 ELSE <<>>
             size == Str(f.width) \o <<"x">> \o Str(f.height)
             content_parts ==
                 <<ImageFileLabel \o f.name,
                   DimensionsLabel \o size \o PixelsLabel,
                   FormatLabel \o f.format,
                   IF extracted_text # <<>> THEN TextLabel \o extracted_text
                   ELSE NoTextLabel>>
         IN  [ImageResult EXCEPT
                !.content = JoinWith(content_parts, <<"\n">>),
                !.preview = <<"I", "m", "a", "g", "e", ":", " ">> \o f.name
                            \o <<" ", "(">> \o size \o <<")">>,
                !.extracted_text = extracted_text,
                !.metadata = [format |-> f.format, width |-> f.width,
                              height |-> f.height],
                !.statistics = [has_text |-> extracted_text # <<>>,
                                text_length |-> Len(extracted_text)]]

ImageBuilds == [pil : BOOLEAN, pytesseract : BOOLEAN]
ImageFormats == {<<"P", "N", "G">>, <<"G", "I", "F">>}
OcrTexts == {<<>>, <<" ", "\n">>, <<"h", "i", "\n">>}

ImageInit ==
    /\ \E w \in 1..MaxSide :
          fin \in [build : ImageBuilds, name : {<<"a", ".", "p", "n", "g">>},
                   valid : BOOLEAN, format : ImageFormats, width : {w},
                   height : {1}, ocr_raises : BOOLEAN, ocr_text : OcrTexts]
    /\ fout = <<>>

\* result = processor.process(file_content, file_name, file_type)
DoImageProcess ==
    /\ fout = <<>>
    /\ fout' = ImageProcess(fin)
    /\ UNCHANGED <<now, nextId, ss, convs, last, conv, cpre, clast, tin, tout, fin, gw, gclock, glast, ghist, sconvs>>

\* ------------------------------------------------------------ GeminiClient
\* Times are in tenths of a second. A generated text is what the model made
\* of a prompt at the time it was asked: [prompt, at].

MinRequestInterval == 1
BaseDelay == 10
MaxRetries == 3
CacheExpiry == 30 * 60 * 10
CacheCap == 100
EvictCount == 20

DefaultModel == "gemini-2.0-flash-exp"

NoText == [prompt |-> <<>>, at |-> 0 - 1]

\* a context is None, or the dict main.py prepares: the number of uploaded
\* files and whether there is conversation history
NoContext == [given |-> FALSE, uploaded_files |-> 0, conversation_history |-> FALSE]

\* GeminiClient._hash_context
HashContext(context) ==
    [files_count |-> context.uploaded_files,
     has_history |-> context.conversation_history]

\* GeminiClient._generate_cache_key: the digest of the three values stands
\* for the values themselves
GenerateCacheKey(prompt, model, context) ==
    [prompt |-> prompt, model |-> model,
     context_hash |-> IF context.given THEN <<HashContext(context)>> ELSE <<>>]

\* where the key is in response_cache, a dict in insertion order; 0 if absent
CacheIndex(cache, key) ==
    IF \E i \in DOMAIN cache : cache[i].key = key
    THEN CHOOSE i \in DOMAIN cache : cache[i].key = key
    ELSE 0

\* del self.response_cache[key] for the entries at the given places
DeleteAt(cache, gone) ==
    LET numbered == [i \in DOMAIN cache |-> <<i, cache[i]>>]
        Stays(p) == p[1] \notin gone
        kept == SelectSeq(numbered, Stays)
    IN  [i \in DOMAIN kept |-> kept[i][2]]

\* GeminiClient._get_cached_response: the response when the entry is younger
\* than cache_expiry; an older entry is deleted
GetCachedResponse(cache, key, t) ==
    LET i == CacheIndex(cache, key)
    IN  IF i = 0 THEN [hit |-> FALSE, response |-> NoText, cache |-> cache]
        ELSE IF t - cache[i].timestamp < CacheExpiry
        THEN [hit |-> TRUE, response |-> cache[i].response, cache |-> cache]
        ELSE [hit |-> FALSE, response |-> NoText, cache |-> DeleteAt(cache, {i})]

\* sorted(keys, key=timestamp)[:EvictCount]: the places of the entries that
\* stand first in the stable sort by timestamp
OldestKeys(cache) ==
    LET Before(j, i) ==
            \/ cache[j].timestamp < cache[i].timestamp
            \/ cache[j].timestamp = cache[i].timestamp /\ j < i
    IN  {i \in DOMAIN cache :
            Cardinality({j \in DOMAIN cache : Before(j, i)}) < EvictCount}

\* GeminiClient._cache_response without the size check
CacheResponseUncapped(cache, key, response, t) ==
    LET entry == [key |-> key, response |-> response, timestamp |-> t]
        i == CacheIndex(cache, key)
    IN  IF i = 0 THEN Append(cache, entry) ELSE [cache EXCEPT ![i] = entry]

\* GeminiClient._cache_response
CacheResponse(cache, key, response, t) ==
    LET entry == [key |-> key, response |-> response, timestamp |-> t]
        i == CacheIndex(cache, key)
        stored == IF i = 0 THEN Append(cache, entry) ELSE [cache EXCEPT ![i] = entry]
    IN  IF Len(stored) > CacheCap
        THEN DeleteAt(stored, OldestKeys(stored))
        ELSE stored

\* GeminiClient._enforce_rate_limit called at time t
EnforceRateLimit(last_request_time, t) ==
    LET time_since_last_request == t - last_request_time
        sleep_time == IF time_since_last_request < MinRequestInterval
                      THEN MinRequestInterval - time_since_last_request
                      ELSE 0
    IN  [events |-> IF sleep_time > 0
                    THEN <<[e |-> "pace", at |-> t, d |-> sleep_time]>>
                    ELSE <<>>,
         now |-> t + sleep_time,
         last_request_time |-> t + sleep_time]

\* GeminiClient._generate_with_retry sleeping after the last failure too
RECURSIVE RetrySleepingOn(_, _, _, _)
RetrySleepingOn(prompt, api, attempt, t) ==
    LET call == [e |-> "api", at |-> t, d |-> api.latency]
        after == t + api.latency
        delay == BaseDelay * 2 ^ attempt
        sleep == [e |-> "sleep", at |-> after, d |-> delay]
    IN  IF api.outcomes[attempt + 1] = "text"
        THEN [events |-> <<call>>, end |-> after, raised |-> FALSE,
              text |-> [prompt |-> prompt, at |-> t]]
        ELSE IF attempt < MaxRetries - 1
        THEN LET rest == RetrySleepingOn(prompt, api, attempt + 1, after + delay)
             IN  [rest EXCEPT !.events = <<call, sleep>> \o @]
        ELSE [events |-> <<call, sleep>>, end |-> after + delay, raised |-> TRUE,
              text |-> NoText]

\* GeminiClient._generate_with_retry from the given attempt on, at time t:
\* api.outcomes says what generate_content comes to at each attempt, a text,
\* an empty text or an exception, api.latency how long it takes
RECURSIVE GenerateWithRetry(_, _, _, _)
GenerateWithRetry(prompt, api, attempt, t) ==
    LET call == [e |-> "api", at |-> t, d |-> api.latency]
        after == t + api.latency
        delay == BaseDelay * 2 ^ attempt
        sleep == [e |-> "sleep", at |-> after, d |-> delay]
    IN  IF api.outcomes[attempt + 1] = "text"
        THEN [events |-> <<call>>, end |-> after, raised |-> FALSE,
              text |-> [prompt |-> prompt, at |-> t]]
        ELSE IF attempt < MaxRetries - 1
        THEN LET rest == GenerateWithRetry(prompt, api, attempt + 1, after + delay)
             IN  [rest EXCEPT !.events = <<call, sleep>> \o @]
        ELSE [events |-> <<call>>, end |-> after, raised |-> TRUE,
              text |-> NoText]

\* what generate_response comes to: kind "ask" is the reply to an empty
\* prompt, "cached" a stored text, "text" a generated one, "error" the
\* apology that carries the exception
NoReply == [kind |-> "", text |-> NoText, events |-> <<>>, end |-> 0]

\* GeminiClient.generate_response serving a stored text whatever its age
GenerateResponseAgeless(g, request, api, t) ==
    LET cache_key == GenerateCacheKey(request.prompt, request.model, request.context)
        i == CacheIndex(g.response_cache, cache_key)
        paced == EnforceRateLimit(g.last_request_time, t)
        run == GenerateWithRetry(request.prompt, api, 0, paced.now)
        g1 == [g EXCEPT !.last_request_time = paced.last_request_time]
    IN  IF Strip(request.prompt) = <<>>
        THEN [gw |-> g, reply |-> [NoReply EXCEPT !.kind = "ask", !.end = t]]
        ELSE IF i # 0
        THEN [gw |-> g,
              reply |-> [NoReply EXCEPT !.kind = "cached", !.end = t,
                                        !.text = g.response_cache[i].response]]
        ELSE IF run.raised
        THEN [gw |-> g1,
              reply |-> [NoReply EXCEPT !.kind = "error", !.end = run.end,
                                        !.events = paced.events \o run.events]]
        ELSE [gw |-> [g1 EXCEPT !.response_cache =
                         CacheResponse(@, cache_key, run.text, run.end)],
              reply |-> [NoReply EXCEPT !.kind = "text", !.end = run.end,
                                        !.text = run.text,
                                        !.events = paced.events \o run.events]]

\* GeminiClient.generate_response called at time t. A model that is not
\* configured is replaced by the default one, which is; the model instance
\* is therefore never None
GenerateResponse(g, request, api, t) ==
    LET cache_key == GenerateCacheKey(request.prompt, request.model, request.context)
        looked == GetCachedResponse(g.response_cache, cache_key, t)
        paced == EnforceRateLimit(g.last_request_time, t)
        run == GenerateWithRetry(request.prompt, api, 0, paced.now)
        g1 == [response_cache |-> looked.cache,
               last_request_time |-> paced.last_request_time]
    IN  IF Strip(request.prompt) = <<>>
        THEN [gw |-> g, reply |-> [NoReply EXCEPT !.kind = "ask", !.end = t]]
        ELSE IF looked.hit
        THEN [gw |-> g,
              reply |-> [NoReply EXCEPT !.kind = "cached", !.end = t,
                                        !.text = looked.response]]
        ELSE IF run.raised
        THEN [gw |-> g1,
              reply |-> [NoReply EXCEPT !.kind = "error", !.end = run.end,
                                        !.events = paced.events \o run.events]]
        ELSE [gw |-> [g1 EXCEPT !.response_cache =
                         CacheResponse(@, cache_key, run.text, run.end)],
              reply |-> [NoReply EXCEPT !.kind = "text", !.end = run.end,
                                        !.text = run.text,
                                        !.events = paced.events \o run.events]]

\* --------------------------------------------- a client serving requests

One == <<"1">>

WithFile == [given |-> TRUE, uploaded_files |-> 1, conversation_history |-> FALSE]

Requests ==
    {[prompt |-> <<" ">>, model |-> DefaultModel, context |-> NoContext],
     [prompt |-> One, model |-> DefaultModel, context |-> NoContext],
     [prompt |-> One, model |-> DefaultModel, context |-> WithFile],
     [prompt |-> Hi, model |-> "gemini-pro", context |-> NoContext]}

Apis ==
    {[outcomes |-> <<"text", "text", "text">>, latency |-> 1],
     [outcomes |-> <<"text", "text", "text">>, latency |-> 0],
     [outcomes |-> <<"raises", "text", "text">>, latency |-> 0],
     [outcomes |-> <<"empty", "raises", "text">>, latency |-> 1],
     [outcomes |-> <<"raises", "empty", "raises">>, latency |-> 0]}

\* the time between two calls
Waits == {1, CacheExpiry - 1} \cup {CacheExpiry + k : k \in 0..MaxIdle}

\* the cache of a client that has answered n prompts "1", "2", ... one every
\* tenth of a second
Served(n) ==
    [i \in 1..n |->
        [key |-> GenerateCacheKey(Str(i), DefaultModel, NoContext),
         response |-> [prompt |-> Str(i), at |-> i],
         timestamp |-> i]]

NoGwCall == [op |-> "none", request |-> <<>>, api |-> <<>>, start |-> 0,
             reply |-> NoReply, prev_api |-> 0 - 1,
             prior |-> <<>>, held |-> FALSE]

\* the texts generated so far for the keys of the requests at hand
StoredOf(cache) ==
    {[key |-> cache[i].key, text |-> cache[i].response, at |-> cache[i].timestamp] :
        i \in {j \in DOMAIN cache :
                  \E r \in Requests :
                     cache[j].key = GenerateCacheKey(r.prompt, r.model, r.context)}}

\* self.gemini_client = GeminiClient(), and the same client after it has
\* filled its cache
GatewayInit ==
    /\ \E n \in {0, CacheCap} :
          /\ gw = [response_cache |-> Served(n), last_request_time |-> n]
          /\ ghist = [calls |-> 0, last_api |-> IF n = 0 THEN 0 - 1 ELSE n,
                      stored |-> StoredOf(Served(n))]
    /\ gclock = CacheCap + 1
    /\ glast = [NoGwCall EXCEPT !.op = "init"]

ApiTimes(events) ==
    LET IsApi(ev) == ev.e = "api"
        calls == SelectSeq(events, IsApi)
    IN  [i \in DOMAIN calls |-> calls[i].at]

\* response = self.gemini_client.generate_response(prompt, model, context)
GwCall ==
    /\ ghist.calls < MaxCalls
    /\ \E request \in Requests, api \in Apis :
          LET r == GenerateResponse(gw, request, api, gclock)
              key == GenerateCacheKey(request.prompt, request.model, request.context)
              times == ApiTimes(r.reply.events)
          IN  /\ gw' = r.gw
              /\ gclock' = r.reply.end
              /\ glast' = [op |-> "generate_response", request |-> request,
                           api |-> api, start |-> gclock, reply |-> r.reply,
                           prev_api |-> ghist.last_api,
                           prior |-> {p \in ghist.stored : p.key = key},
                           held |-> CacheIndex(gw.response_cache, key) # 0]
              /\ ghist' = [calls |-> ghist.calls + 1,
                           last_api |-> IF times = <<>> THEN ghist.last_api
                                        ELSE times[Len(times)],
                           stored |-> IF r.reply.kind = "text"
                                      THEN {p \in ghist.stored : p.key # key}
                                           \cup {[key |-> key, text |-> r.reply.text,
                                                  at |-> r.reply.end]}
                                      ELSE ghist.stored]
    /\ UNCHANGED <<now, nextId, ss, convs, last, conv, cpre, clast, tin, tout,
                   fin, fout, sconvs>>

\* the user takes some time before the next request
GwWait ==
    /\ glast.op = "generate_response"
    /\ ghist.calls < MaxCalls
    /\ \E d \in Waits : gclock' = gclock + d
    /\ glast' = [NoGwCall EXCEPT !.op = "wait"]
    /\ UNCHANGED <<now, nextId, ss, convs, last, conv, cpre, clast, tin, tout,
                   fin, fout, gw, ghist, sconvs>>

\* ------------------------------------------------------- specifications

\* the conversation store under its read operations
InitRead == StoreInit /\ IdleConv /\ IdleTitle /\ IdleFile
    /\ IdleGateway /\ IdleSidebar
NextRead ==
    DoCreate \/ DoGetCurrent \/ DoSay \/ DoExport \/ DoRecentHistory \/ DoSearch
        \/ DoStats
SpecRead == InitRead /\ [][NextRead]_vars

\* the conversation store
Init == StoreInit /\ IdleConv /\ IdleTitle /\ IdleFile
    /\ IdleGateway /\ IdleSidebar
Next == DoCreate \/ DoGetCurrent \/ DoAddMessage \/ DoCleanup \/ DoRerun \/ StoreTick
Spec == Init /\ [][Next]_vars

\* one Conversation object
InitConv == ConvInit /\ IdleStore /\ IdleTitle /\ IdleFile
    /\ IdleGateway /\ IdleSidebar
NextConv == ConvAdd \/ ConvRoundTrip \/ ConvRecent \/ ConvTick
SpecConv == InitConv /\ [][NextConv]_vars

\* the title function
InitTitle ==
    TitleInit /\ IdleStore /\ IdleConv /\ IdleFile /\ now = 0 /\ nextId = 0
    /\ IdleGateway /\ IdleSidebar
NextTitle == TitleGenerate
SpecTitle == InitTitle /\ [][NextTitle]_vars

\* one upload through FileProcessor.process_file
InitFiles == UploadInit /\ IdleStore /\ IdleConv /\ IdleTitle /\ now = 0 /\ nextId = 0
    /\ IdleGateway /\ IdleSidebar
NextFiles == DoProcessFile
SpecFiles == InitFiles /\ [][NextFiles]_vars

\* one PDF through PDFProcessor.process
InitPdf == PdfInit /\ IdleStore /\ IdleConv /\ IdleTitle /\ now = 0 /\ nextId = 0
    /\ IdleGateway /\ IdleSidebar
NextPdf == DoPdfProcess
SpecPdf == InitPdf /\ [][NextPdf]_vars

\* one Word document through DocxProcessor.process
InitDocx == DocxInit /\ IdleStore /\ IdleConv /\ IdleTitle /\ now = 0 /\ nextId = 0
    /\ IdleGateway /\ IdleSidebar
NextDocx == DoDocxProcess
SpecDocx == InitDocx /\ [][NextDocx]_vars

\* one image through ImageProcessor.process
InitImage == ImageInit /\ IdleStore /\ IdleConv /\ IdleTitle /\ now = 0 /\ nextId = 0
    /\ IdleGateway /\ IdleSidebar
NextImage == DoImageProcess
SpecImage == InitImage /\ [][NextImage]_vars

\* one GeminiClient answering requests
InitGateway ==
    GatewayInit /\ IdleStore /\ IdleConv /\ IdleTitle /\ IdleFile /\ IdleSidebar
        /\ now = 0 /\ nextId = 0
NextGateway == GwCall \/ GwWait
SpecGateway == InitGateway /\ [][NextGateway]_vars

\* ---------------------------------------------------------- the properties

\* the Conversation with this id
ConvOf(cs, id) == cs[IndexOfConv(cs, id)]

\* the ids of a mapping
IdsOf(cs) == {cs[i].id : i \in DOMAIN cs}

FailedAddMessageChangesNothing ==
    [][(last'.op = "add_message" /\ last'.ret = FALSE) =>
         (convs' = convs /\ ss' = ss)]_vars

\* C3: a call of ChatManager.add_message that returns True appends to the
\* resolved current conversation exactly the user message and then the
\* assistant message carrying model_used, and changes the messages of no
\* other conversation.
AddMessageAppendsExchange ==
    [][(last'.op = "add_message" /\ last'.ret = TRUE) =>
         LET id  == ss'.current
             old == IF HasConv(convs, id) THEN ConvOf(convs, id).messages ELSE <<>>
             new == ConvOf(convs', id).messages
             n   == Len(old)
         IN  /\ Resolves => id = ss.current
             /\ Len(new) = n + 2
             /\ SubSeq(new, 1, n) = old
             /\ new[n + 1].role = "user"
             /\ new[n + 1].content = last'.args[1]
             /\ new[n + 2].role = "assistant"
             /\ new[n + 2].content = last'.args[2]
             /\ new[n + 2].model_used = last'.args[3]
             /\ IdsOf(convs') = IdsOf(convs) \cup {id}
             /\ \A k \in IdsOf(convs) \ {id} :
                   ConvOf(convs', k).messages = ConvOf(convs, k).messages]_vars

\* an exchange was appended after an earlier one
AddMessageAppendedWitness ==
    /\ last.op = "add_message"
    /\ last.ret = TRUE
    /\ Len(ConvOf(convs, ss.current).messages) = 4
    /\ Len(convs) > 1

\* C4: cleanup_old_conversations(days_old) removes exactly the conversations
\* whose updated_at is strictly before now - days_old and that are not
\* favorites, leaves every other conversation as it was, and returns the
\* number removed.
CleanupRemovesExactlyOldNonFavorites ==
    [][last'.op = "cleanup_old_conversations" =>
         LET cutoff == now - Days(last'.args[1])
             gone == {i \in DOMAIN convs :
                         /\ convs[i].updated_at < cutoff
                         /\ ~("is_favorite" \in convs[i].metadata.has
                              /\ convs[i].metadata.is_favorite)}
         IN  /\ IdsOf(convs') = {convs[i].id : i \in DOMAIN convs \ gone}
             /\ Len(convs') = Len(convs) - Cardinality(gone)
             /\ \A i \in DOMAIN convs \ gone : ConvOf(convs', convs[i].id) = convs[i]
             /\ ~last'.raised => last'.ret = Cardinality(gone)]_vars

\* a cleanup removed a conversation, kept a favorite as old as it, and kept a
\* conversation updated exactly at the cutoff
CleanupWitness ==
    /\ last.op = "cleanup_old_conversations"
    /\ ~last.raised
    /\ last.ret >= 1
    /\ \E i \in DOMAIN convs :
          /\ convs[i].metadata.is_favorite
          /\ convs[i].updated_at < now - Days(last.args[1])
    /\ \E i \in DOMAIN convs :
          /\ ~convs[i].metadata.is_favorite
          /\ convs[i].updated_at = now - Days(last.args[1])

\* the calls that write the mapping through to the session state
WroteThrough ==
    /\ last.op \in {"create_new_conversation", "add_message",
                    "cleanup_old_conversations"}
    /\ ~last.raised
    /\ last.op = "add_message" => last.ret = TRUE

\* C5: right after create_new_conversation, a successful add_message or
\* cleanup_old_conversations returns, the persisted `conversations` holds one
\* serialized entry per conversation of the mapping, with its id, title,
\* messages and metadata, and loading it gives back the mapping.
PersistedMatchesMapping ==
    WroteThrough =>
        /\ ss.has_conversations
        /\ Len(ss.conversations) = Len(convs)
        /\ \A i \in DOMAIN convs :
              LET d == ss.conversations[i]  c == convs[i]
              IN  /\ d.id = c.id
                  /\ d.title = c.title
                  /\ d.has_messages /\ Len(d.messages) = Len(c.messages)
                  /\ \A j \in DOMAIN c.messages :
                        /\ d.messages[j].id = c.messages[j].id
                        /\ d.messages[j].content = c.messages[j].content
                        /\ d.messages[j].role = c.messages[j].role
                        /\ d.messages[j].model_used = c.messages[j].model_used
                  /\ d.has_metadata
                  /\ d.metadata.has = c.metadata.has
                  /\ d.metadata.total_messages = c.metadata.total_messages
                  /\ ListToSet(d.metadata.models_used) = c.metadata.models_used
                  /\ d.metadata.is_favorite = c.metadata.is_favorite
        /\ LoadFromSessionState(ss) = convs

\* a write-through of two conversations, one of them holding messages stamped
\* between two whole days
WroteThroughWitness ==
    /\ WroteThrough
    /\ Len(convs) >= 2
    /\ \E i \in DOMAIN convs :
          /\ convs[i].messages # <<>>
          /\ convs[i].updated_at % TicksPerDay # 0

\* C6: metadata['total_messages'] equals len(messages) after every
\* Conversation.add_message, whatever the roles and models.
TotalMessagesInSync ==
    clast.op = "add_message" =>
        /\ "total_messages" \in conv.metadata.has
        /\ conv.metadata.total_messages = Len(conv.messages)

\* a second message was added
TotalMessagesWitness ==
    /\ clast.op = "add_message"
    /\ Len(conv.messages) = 2
    /\ conv.messages[1].role = "assistant"

\* C7: Conversation.from_dict(c.to_dict()) has c's id, title, created_at and
\* updated_at, c's messages in order (ids, content, roles, timestamps,
\* model_used), and c's models_used, total_messages, tags and is_favorite.
RoundTripPreserves ==
    clast.op = "round_trip" =>
        /\ conv.id = cpre.id
        /\ conv.title = cpre.title
        /\ conv.created_at = cpre.created_at
        /\ conv.updated_at = cpre.updated_at
        /\ Len(conv.messages) = Len(cpre.messages)
        /\ \A j \in DOMAIN cpre.messages :
              /\ conv.messages[j].id = cpre.messages[j].id
              /\ conv.messages[j].content = cpre.messages[j].content
              /\ conv.messages[j].role = cpre.messages[j].role
              /\ conv.messages[j].timestamp = cpre.messages[j].timestamp
              /\ conv.messages[j].model_used = cpre.messages[j].model_used
        /\ conv.metadata.models_used = cpre.metadata.models_used
        /\ conv.metadata.total_messages = cpre.metadata.total_messages
        /\ conv.metadata.tags = cpre.metadata.tags
        /\ conv.metadata.is_favorite = cpre.metadata.is_favorite
        /\ conv.metadata.has = cpre.metadata.has

\* a round trip of two messages, two models and a timestamp between two days
RoundTripWitness ==
    /\ clast.op = "round_trip"
    /\ Len(conv.messages) = 2
    /\ Cardinality(cpre.metadata.models_used) = 2
    /\ cpre.updated_at % TicksPerDay # 0
    /\ cpre.created_at # cpre.updated_at

\* C8: Conversation.add_message adds model_used to models_used exactly when
\* it is non-empty and the role is 'assistant', and leaves models_used alone
\* otherwise.
ModelsUsedOnlyFromAssistant ==
    clast.op = "add_message" =>
        conv.metadata.models_used =
            IF Truthy(clast.model_used) /\ clast.role = "assistant"
            THEN cpre.metadata.models_used \cup {clast.model_used}
            ELSE cpre.metadata.models_used

\* C9: add_message sets the title only when it appends the first message,
\* that message is the user's and the title is still "New Conversation"; then
\* the title is the one derived from the content; every other add_message
\* leaves the title as it was.
TitleDerivedOnlyOnFirstUserMessage ==
    clast.op = "add_message" =>
        conv.title =
            IF /\ cpre.messages = <<>>
               /\ clast.role = "user"
               /\ cpre.title = DefaultTitle
            THEN GenerateTitle(clast.content)
            ELSE cpre.title

\* a user message arrived second while the title was still the default
TitleKeptWitness ==
    /\ clast.op = "add_message"
    /\ clast.role = "user"
    /\ clast.content = Hi
    /\ Len(conv.messages) = 2
    /\ cpre.title = DefaultTitle

\* C10: the derived title ends in "..." exactly when the content, with its
\* surrounding whitespace removed, is longer than 50 characters, and then it
\* is the collapsed 50-character prefix followed by "...".
TitleEllipsisIffTruncated ==
    tout # <<>> =>
        IF Len(Strip(tin)) > TitleLimit
        THEN tout = JoinSpace(Split(Prefix(Strip(tin), TitleLimit) \o Ellipsis))
        ELSE tout = (IF Strip(tin) = <<>> THEN DefaultTitle
                     ELSE JoinSpace(Split(Strip(tin))))

\* C11: with a clock that never runs backwards, every conversation of the
\* mapping and every persisted entry has updated_at >= created_at, after
\* construction, after every call and after every reload; and whenever
\* add_message appends to a conversation (also when it then returns False),
\* that conversation's updated_at is the time of the call.
UpdatedAtFollowsAppends ==
    /\ [](/\ \A i \in DOMAIN convs : convs[i].updated_at >= convs[i].created_at
          /\ \A i \in DOMAIN ss.conversations :
                FromIsoFormat(ss.conversations[i].updated_at)
                    >= FromIsoFormat(ss.conversations[i].created_at))
    /\ [][last'.op = "add_message" =>
             \A i \in DOMAIN convs' :
                LET c == convs'[i]
                    before == IF HasConv(convs, c.id)
                              THEN Len(ConvOf(convs, c.id).messages) ELSE 0
                IN  Len(c.messages) > before => c.updated_at = now]_vars

\* an exchange was appended to a conversation created before the call, and
\* the store was reloaded afterwards
UpdatedAtWitness ==
    /\ last.op = "rerun"
    /\ \E i \in DOMAIN convs :
          /\ convs[i].messages # <<>>
          /\ convs[i].updated_at > convs[i].created_at
          /\ convs[i].updated_at % TicksPerDay # 0

\* the conversation an export_conversation call that returned has exported
Exported == IF last.args[1] # NoneId THEN last.args[1] ELSE ss.current

\* export_conversation(id, format) fails exactly when no conversation
\* resolves (the given id is absent, or id is None and there is no valid
\* current selection) or format is not one of 'json', 'csv', 'txt'.
ExportFailsIffUnresolvedOrNotOneOfThree ==
    [][last'.op = "export_conversation" =>
         LET id == last'.args[1]
             unresolved == IF id = NoneId THEN ~Resolves ELSE ~HasConv(convs, id)
         IN  last'.raised <=>
                (unresolved \/ last'.args[2] \notin {Json, Csv, Txt})]_vars

\* C12: export_conversation(id, format) raises "No conversation to export"
\* exactly when a given id is absent from the mapping, and "Unsupported
\* export format" exactly when a conversation resolved and format.lower() is
\* none of 'json', 'csv', 'txt'; with id None a conversation always resolves,
\* being created and selected when there is no valid selection; the only
\* other failure is the KeyError of to_dict on a conversation restored
\* without models_used, in the save of that creation or in the json export
\* of such a conversation; every other call returns the export.
ExportFailsIffAbsentOrUnsupported ==
    [][last'.op = "export_conversation" =>
         LET id == last'.args[1]
             fmt == Lower(last'.args[2])
             healed == id = NoneId /\ ~Resolves
             target == IF id # NoneId THEN id ELSE ss.current
             expected ==
                IF id # NoneId /\ ~HasConv(convs, id)
                THEN "ValueError: No conversation to export"
                ELSE IF healed
                THEN IF \E i \in DOMAIN convs : "models_used" \notin convs[i].metadata.has
                     THEN "KeyError"
                     ELSE IF fmt \in {Json, Csv, Txt} THEN ""
                     ELSE "ValueError: Unsupported export format"
                ELSE IF fmt = Json
                THEN IF "models_used" \in ConvOf(convs, target).metadata.has
                     THEN "" ELSE "KeyError"
                ELSE IF fmt \in {Csv, Txt} THEN ""
                ELSE "ValueError: Unsupported export format"
         IN  /\ last'.ret.error = expected
             /\ last'.raised <=> expected # ""
             /\ expected = "" => last'.ret.format = fmt
             /\ healed => /\ Len(convs') = Len(convs) + 1
                          /\ ss'.has_current
                          /\ HasConv(convs', ss'.current)
                          /\ ~HasConv(convs, ss'.current)
             /\ ~healed => convs' = convs /\ ss' = ss]_vars

\* an export with no id and format 'CSV' returned the export of an empty
\* current conversation
ExportWitness ==
    /\ last.op = "export_conversation"
    /\ last.args = <<NoneId, <<"C", "S", "V">>>>
    /\ ~last.raised
    /\ ConvOf(convs, ss.current).messages = <<>>
    /\ last.ret.data = <<CsvHeader>>

\* C13: the CSV export is the header row followed by one row per message in
\* message order, holding the timestamp, the role and the content with its
\* newlines turned into spaces; a user row has Model Used 'N/A' and an
\* assistant row has the model it was given when that is non-empty.
CsvExportRowPerMessage ==
    (last.op = "export_conversation" /\ ~last.raised /\ last.ret.format = Csv) =>
        LET msgs == ConvOf(convs, Exported).messages
            rows == last.ret.data
        IN  /\ Len(rows) = Len(msgs) + 1
            /\ rows[1] = <<"Timestamp", "Role", "Content", "Model Used">>
            /\ \A j \in DOMAIN msgs :
                  LET m == msgs[j]  row == rows[j + 1]
                  IN  /\ Len(row) = 4
                      /\ FromIsoFormat(row[1]) = m.timestamp
                      /\ row[2] = m.role
                      /\ Len(row[3]) = Len(m.content)
                      /\ \A k \in DOMAIN m.content :
                            row[3][k] = IF m.content[k] = "\n" THEN " "
                                        ELSE m.content[k]
                      /\ m.role = "user" => row[4] = "N/A"
                      /\ (m.role = "assistant" /\ m.model_used \notin {NoModel, ""})
                            => row[4] = m.model_used

\* two exchanges were exported as CSV, one with a newline in its content
CsvExportWitness ==
    /\ last.op = "export_conversation"
    /\ ~last.raised
    /\ last.ret.format = Csv
    /\ Len(last.ret.data) = 5
    /\ \E j \in DOMAIN ConvOf(convs, Exported).messages :
          ConvOf(convs, Exported).messages[j].content = Loud
    /\ last.ret.data[5][4] = "gemini-pro"

\* C14: get_recent_messages(count), count >= 0, returns the last
\* min(count, len(messages)) messages in order, none for count = 0, and
\* leaves the conversation as it was.
RecentMessagesAreLastCount ==
    clast.op = "get_recent_messages" =>
        LET n == Len(cpre.messages)
            k == IF clast.count < n THEN clast.count ELSE n
        IN  /\ clast.ret = SubSeq(cpre.messages, n - k + 1, n)
            /\ conv = cpre

\* whether message m contains the query, letter case aside
Hit(m, query) ==
    \E k \in 0..(Len(m.content) - Len(query)) :
        \A p \in DOMAIN query :
            LowerChar(m.content[k + p]) = LowerChar(query[p])

\* the positions of the messages of c that contain the query
Hits(c, query) == {j \in DOMAIN c.messages : Hit(c.messages[j], query)}

\* C15: search_conversations(query) returns one entry for each conversation
\* with a message containing the query case-insensitively and none for any
\* other; an entry's matching_messages is the number of such messages and its
\* messages are the first min(3, matches) of them in order; entries come by
\* matching_messages descending, equal counts in the order of the mapping.
SearchFindsCountsAndRanks ==
    last.op = "search_conversations" =>
        LET q == last.args[1]
            r == last.ret
            found == {i \in DOMAIN convs : Hits(convs[i], q) # {}}
        IN  /\ ~last.raised
            /\ Len(r) = Cardinality(found)
            /\ {r[k].conversation_id : k \in DOMAIN r} = {convs[i].id : i \in found}
            /\ \A k \in DOMAIN r :
                  LET c == ConvOf(convs, r[k].conversation_id)
                      h == Hits(c, q)
                      Nth(n) == CHOOSE j \in h : Cardinality({x \in h : x <= j}) = n
                  IN  /\ r[k].matching_messages = Cardinality(h)
                      /\ r[k].conversation_title = c.title
                      /\ Len(r[k].messages) =
                            (IF Cardinality(h) < 3 THEN Cardinality(h) ELSE 3)
                      /\ \A n \in DOMAIN r[k].messages :
                            /\ r[k].messages[n].id = c.messages[Nth(n)].id
                            /\ r[k].messages[n].content = c.messages[Nth(n)].content
            /\ \A k1, k2 \in DOMAIN r :
                  k1 < k2 =>
                     \/ r[k1].matching_messages > r[k2].matching_messages
                     \/ /\ r[k1].matching_messages = r[k2].matching_messages
                        /\ IndexOfConv(convs, r[k1].conversation_id)
                              < IndexOfConv(convs, r[k2].conversation_id)

\* a search in capitals found two conversations and ranked the later one of
\* the mapping first, by its two matches against one
SearchWitness ==
    /\ last.op = "search_conversations"
    /\ last.args[1] = <<"H", "I">>
    /\ Len(last.ret) = 2
    /\ last.ret[1].matching_messages = 2
    /\ last.ret[2].matching_messages = 1
    /\ IndexOfConv(convs, last.ret[1].conversation_id)
          > IndexOfConv(convs, last.ret[2].conversation_id)

\* C16: get_conversation_stats never raises; on an empty store it returns
\* total_conversations = 0, total_messages = 0 and an average of 0; otherwise
\* total_conversations is the number of conversations, total_messages the sum
\* of the lengths of their message sequences and the average their quotient.
StatsNeverRaise ==
    last.op = "get_conversation_stats" =>
        LET r == last.ret
            all == UNION {{<<i, j>> : j \in DOMAIN convs[i].messages} :
                             i \in DOMAIN convs}
        IN  /\ ~last.raised
            /\ r.total_conversations = Len(convs)
            /\ r.total_messages = Cardinality(all)
            /\ IF convs = <<>>
               THEN r.average_messages_per_conversation = 0
               ELSE /\ r.average_messages_per_conversation.num = Cardinality(all)
                    /\ r.average_messages_per_conversation.den = Len(convs)

\* the statistics of an empty store were asked for
StatsWitness ==
    /\ last.op = "get_conversation_stats"
    /\ convs = <<>>
    /\ ~last.raised

\* the positions in Processors of the processors that accept the upload
Accepting ==
    {i \in DOMAIN Processors :
        CanProcess(Processors[i], fout.file_type, fin.name, fin.build)}

\* C17: the text processor accepts no (media type, file name) that the CSV
\* processor or the PDF processor accepts, so such a file never goes to the
\* text processor.
TextHandlerDoesNotOverClaim ==
    (/\ fout # <<>>
     /\ fin.readable
     /\ \/ CanProcess("csv", fout.file_type, fin.name, fin.build)
        \/ CanProcess("pdf", fout.file_type, fin.name, fin.build))
    => /\ ~CanProcess("text", fout.file_type, fin.name, fin.build)
       /\ fout.handler # "text"

\* process_file asks the processors in the order text, pdf, docx, csv, image
\* and takes the first that accepts; when none accepts it returns the
\* fallback text and does not raise.
DispatchFirstAcceptingElseFallback ==
    (fout # <<>> /\ fin.readable) =>
        IF Accepting = {}
        THEN /\ ~fout.raised
             /\ fout.kind = "fallback"
             /\ fout.handler = "none"
        ELSE LET first == CHOOSE i \in Accepting : \A j \in Accepting : i <= j
             IN  /\ fout.handler = Processors[first]
                 /\ fout.consulted = SubSeq(Processors, 1, first)

\* C18: for a file no larger than the configured maximum, process_file asks
\* the processors in the order text, pdf, docx, csv, image, stops at the first
\* that accepts and hands the file to it; when none accepts it has asked all
\* five and returns the fallback text naming the file, its type and its size,
\* and does not raise. A larger file raises FileProcessingError before any
\* processor is asked.
DispatchWithinSizeLimit ==
    (fout # <<>> /\ fin.readable) =>
        IF fin.size > MaxFileSizeMb * 1024 * 1024
        THEN /\ fout.raised
             /\ fout.error = "FileProcessingError"
             /\ fout.consulted = <<>>
             /\ ~fout.processed
        ELSE IF Accepting = {}
        THEN /\ ~fout.raised
             /\ fout.kind = "fallback"
             /\ fout.handler = "none"
             /\ ~fout.processed
             /\ fout.consulted = <<"text", "pdf", "docx", "csv", "image">>
             /\ fout.content.file = fin.name
             /\ fout.content.type = fout.file_type
        ELSE LET first == CHOOSE i \in Accepting : \A j \in Accepting : i <= j
             IN  /\ fout.handler = <<"text", "pdf", "docx", "csv", "image">>[first]
                 /\ fout.consulted = SubSeq(Processors, 1, first)
                 /\ fout.processed

\* a file of the largest size allowed, with no declared type and a name no
\* processor knows, came back as the fallback text
FallbackWitness ==
    /\ fout # <<>>
    /\ fout.kind = "fallback"
    /\ fin.type = ""
    /\ fin.readable
    /\ fin.size = MaxFileSizeBytes
    /\ fin.build.pdf /\ fin.build.docx /\ fin.build.pandas

\* whether an extractor gives no text but whitespace for the PDF
NoTextFrom(pages, fails) ==
    fails \/ \A i \in DOMAIN pages : \A k \in DOMAIN pages[i] : IsSpace(pages[i][k])

\* C19: a PDF from which neither extractor gets any non-whitespace text does
\* not make PDFProcessor.process raise: the result's content is the
\* no-extractable-text marker and its statistics say extractable_text false.
NoTextPdfIsReportedNotRaised ==
    (/\ fout # <<>>
     /\ fin.available
     /\ NoTextFrom(fin.plumber, fin.plumber_fails)
     /\ NoTextFrom(fin.pypdf2, fin.pypdf2_fails))
    => /\ ~fout.raised
       /\ fout.type = "pdf"
       /\ fout.content = PdfMarker
       /\ fout.statistics.extractable_text = FALSE

\* the body elements that give text, and the text of each as the claim has it
Rendered(e) ==
    IF e.tag = TagTbl
    THEN JoinWith(<<TableStart>>
                  \o [r \in DOMAIN e.rows |->
                        JoinWith([k \in DOMAIN e.rows[r] |->
                                    Replace(Strip(e.rows[r][k]), "\n", " ")],
                                 <<" ", "|", " ">>)]
                  \o <<TableEnd>>, <<"\n">>)
    ELSE IF StartsWith(e.style, Heading)
    THEN <<"\n">> \o e.style \o <<":", " ">> \o e.text \o <<"\n">>
    ELSE e.text

GivesText(e) == e.tag = TagTbl \/ (e.tag = TagP /\ Strip(e.text) # <<>>)

\* C20: DocxProcessor.process on a Word document does not raise and returns
\* a result of type 'docx' whose content is the body's paragraphs and tables
\* in document order, a table between "[TABLE]" and "[/TABLE]" and a
\* heading behind its style name.
DocxListsBodyInOrder ==
    (fout # <<>> /\ fin.available)
    => /\ ~fout.raised
       /\ fout.type = "docx"
       /\ LET shown == SelectSeq(fin.body, GivesText)
          IN  fout.content =
                 JoinWith([i \in DOMAIN shown |-> Rendered(shown[i])], <<"\n">>)

\* C21: process_file checks the size of the content it read before it asks
\* any processor: a file larger than the configured maximum raises
\* FileProcessingError with no processor's can_process or process called,
\* and a file of exactly the maximum size passes the size check.
SizeCheckedBeforeDispatch ==
    (fout # <<>> /\ fin.readable) =>
        IF fin.size > MaxFileSizeBytes
        THEN /\ fout.raised
             /\ fout.error = "FileProcessingError"
             /\ fout.message = TooLarge
             /\ fout.consulted = <<>>
             /\ fout.handler = "none"
             /\ ~fout.processed
        ELSE /\ fout.message # TooLarge
             /\ fout.consulted # <<>>
             /\ fout.raised => fout.processed

\* a file one byte over the maximum that a processor would have accepted was
\* refused
OversizeWitness ==
    /\ fout # <<>>
    /\ fin.readable
    /\ fin.size = MaxFileSizeBytes + 1
    /\ fout.raised
    /\ CanProcess("text", fout.file_type, fin.name, fin.build)

\* C22: whatever fails in process_file leaves it as a FileProcessingError:
\* the one of the size check and the one a processor raises pass through
\* with their own message, an exception of another kind is wrapped as
\* "Unexpected error processing file".
FailuresAreFileProcessingErrors ==
    (fout # <<>> /\ fout.raised) =>
        /\ fout.error = "FileProcessingError"
        /\ fout.message =
              IF ~fin.readable THEN Unexpected
              ELSE IF fout.processed THEN FailedToProcess
              ELSE TooLarge

\* a file whose read() raised came out as a FileProcessingError
WrappedWitness ==
    /\ fout # <<>>
    /\ ~fin.readable
    /\ fout.raised
    /\ fout.error = "FileProcessingError"

\* C23: an image that can be decoded comes back from ImageProcessor.process
\* with its format and dimensions whenever OCR is not to be had, be it that
\* the OCR capability is absent from the build or that OCR raises on this
\* image: the extracted text is then empty, statistics.has_text is false and
\* no FileProcessingError is raised.
OcrProblemsDegradeSoftly ==
    (/\ fout # <<>>
     /\ fin.valid
     /\ ~OcrAvailable(fin.build) \/ fin.ocr_raises)
    => /\ ~fout.raised
       /\ fout.extracted_text = <<>>
       /\ ~fout.statistics.has_text
       /\ fout.metadata.format = fin.format
       /\ fout.metadata.width = fin.width
       /\ fout.metadata.height = fin.height

\* the API calls and the sleeps between them that the last call made, without
\* the wait of the rate limit that may precede them
Attempts ==
    LET Retrying(ev) == ev.e # "pace"
    IN  SelectSeq(glast.reply.events, Retrying)

\* C24: one generate_response call invokes the model API at most 3 times and
\* stops at the first attempt that gives a non-empty text; it sleeps 1 second
\* after the first failed attempt and 2 seconds after the second, and not at
\* all after the third; when all three attempts fail it returns the error
\* text instead of raising.
RetryProtocol ==
    glast.op = "generate_response" =>
        LET n == Len(ApiTimes(glast.reply.events))
            outcomes == glast.api.outcomes
            failed == {i \in 1..3 : \A j \in 1..i : outcomes[j] # "text"}
        IN  /\ n <= 3
            /\ glast.reply.kind \in {"ask", "cached", "text", "error"}
            /\ glast.reply.kind \in {"ask", "cached"} => n = 0
            /\ glast.reply.kind = "text" =>
                  /\ n = Cardinality(failed) + 1
                  /\ outcomes[n] = "text"
            /\ glast.reply.kind = "error" => n = 3 /\ failed = {1, 2, 3}
            /\ n > 0 =>
                  /\ Len(Attempts) = 2 * n - 1
                  /\ \A i \in 1..n : Attempts[2 * i - 1].e = "api"
                  /\ n >= 2 => Attempts[2].e = "sleep" /\ Attempts[2].d = 10
                  /\ n = 3 => Attempts[4].e = "sleep" /\ Attempts[4].d = 20

\* three attempts failed and the call returned the error text
AllAttemptsFailedWitness ==
    /\ glast.op = "generate_response"
    /\ glast.reply.kind = "error"
    /\ Len(ApiTimes(glast.reply.events)) = 3

\* the key of the last request
LastKey ==
    GenerateCacheKey(glast.request.prompt, glast.request.model, glast.request.context)

\* a request with the key of a text generated less than 30 minutes earlier is
\* answered with that text and no API call; a text 30 minutes old or older is
\* not returned and its entry is deleted; an error text or the reply to an
\* empty prompt is not stored.
CacheServesEveryFreshText ==
    glast.op = "generate_response" =>
        /\ \A p \in glast.prior :
              IF glast.start - p.at < CacheExpiry
              THEN /\ glast.reply.kind = "cached"
                   /\ glast.reply.text = p.text
                   /\ glast.reply.events = <<>>
              ELSE /\ glast.reply.kind # "cached"
                   /\ glast.reply.text # p.text
                   /\ \A i \in DOMAIN gw.response_cache :
                         gw.response_cache[i].key = LastKey =>
                            gw.response_cache[i].timestamp > p.at
        /\ glast.reply.kind \in {"ask", "error"} =>
              CacheIndex(gw.response_cache, LastKey) = 0

\* C25: a request whose key has an entry in the cache that was stored less
\* than 30 minutes earlier is answered with the stored text and no API call;
\* an entry 30 minutes old or older is not returned and is deleted on lookup;
\* an error text or the reply to an empty prompt is not stored. An entry
\* that the size cap evicted is no longer served, however fresh.
CacheServesFreshEntries ==
    glast.op = "generate_response" =>
        /\ \A p \in glast.prior :
              IF glast.start - p.at < CacheExpiry
              THEN glast.held =>
                      /\ glast.reply.kind = "cached"
                      /\ glast.reply.text = p.text
                      /\ glast.reply.events = <<>>
              ELSE /\ glast.reply.kind # "cached"
                   /\ glast.reply.text # p.text
                   /\ \A i \in DOMAIN gw.response_cache :
                         gw.response_cache[i].key = LastKey =>
                            gw.response_cache[i].timestamp > p.at
        /\ ~glast.held => glast.reply.kind # "cached"
        /\ glast.reply.kind \in {"ask", "error"} =>
              CacheIndex(gw.response_cache, LastKey) = 0

\* a text was served from the cache a tenth of a second before it expired
FreshHitWitness ==
    /\ glast.op = "generate_response"
    /\ glast.reply.kind = "cached"
    /\ \E p \in glast.prior : glast.start - p.at = CacheExpiry - 1

\* C26: any two consecutive calls of the model API made by one client, the
\* last attempt of one generate_response and the first attempt of the next
\* included, are at least min_request_interval apart.
RequestsAreSpaced ==
    glast.op = "generate_response" =>
        LET times == ApiTimes(glast.reply.events)
        IN  /\ \A i \in 1..(Len(times) - 1) :
                  times[i + 1] - times[i] >= MinRequestInterval
            /\ (times # <<>> /\ glast.prev_api >= 0) =>
                  times[1] - glast.prev_api >= MinRequestInterval

\* the entries of a cache
EntriesOf(cache) == {cache[i] : i \in DOMAIN cache}

\* C27: the cache never holds more than 100 entries once _cache_response has
\* returned; an insertion that takes it past 100 removes exactly 20 entries,
\* none of them younger than an entry that stays, and not the entry just
\* inserted; any other insertion removes nothing.
CacheStaysWithinCap ==
    /\ [](Len(gw.response_cache) <= 100)
    /\ [][(ghist'.calls # ghist.calls /\ glast'.reply.kind = "text") =>
            LET key == GenerateCacheKey(glast'.request.prompt, glast'.request.model,
                                        glast'.request.context)
                before == {en \in EntriesOf(gw.response_cache) : en.key # key}
                after == EntriesOf(gw'.response_cache)
                new == [key |-> key, response |-> glast'.reply.text,
                        timestamp |-> glast'.reply.end]
            IN  IF Cardinality(before) + 1 > 100
                THEN /\ after \subseteq before \cup {new}
                     /\ Cardinality(after) = Cardinality(before) + 1 - 20
                     /\ new \in after
                     /\ \A gone \in (before \cup {new}) \ after :
                           \A kept \in after : gone.timestamp <= kept.timestamp
                ELSE after = before \cup {new}]_vars

\* a text was stored in a full cache and the 20 oldest entries went
EvictionWitness ==
    /\ glast.op = "generate_response"
    /\ glast.reply.kind = "text"
    /\ Len(gw.response_cache) = CacheCap + 1 - EvictCount
    /\ CacheIndex(gw.response_cache, LastKey) # 0

\* the selected conversation, when the selection names one of the mapping
Selected == convs[IndexOfConv(convs, ss.current)]

\* if current_conversation_id names a conversation in the mapping before
\* cleanup_old_conversations runs, it names one afterwards
SelectionSurvivesCleanup ==
    [][(last'.op = "cleanup_old_conversations" /\ Resolves) => Resolves']_vars

\* C29: cleanup_old_conversations leaves current_conversation_id as it is;
\* a selection that names a conversation of the mapping names one afterwards
\* unless that conversation is not a favorite and was last updated before
\* the cutoff, and then it is removed like any other and the selection is
\* stale.
SelectionSurvivesCleanupUnlessOld ==
    [][last'.op = "cleanup_old_conversations" =>
          /\ ss'.has_current = ss.has_current
          /\ ss'.current = ss.current
          /\ Resolves =>
                LET old == /\ Selected.updated_at < now - Days(last'.args[1])
                           /\ ~("is_favorite" \in Selected.metadata.has
                                 /\ Selected.metadata.is_favorite)
                IN  Resolves' <=> ~old]_vars

\* a cleanup removed a conversation and left the selected one in place
SelectionKeptWitness ==
    /\ last.op = "cleanup_old_conversations"
    /\ last.ret >= 1
    /\ Resolves

\* a message sequence of whole exchanges: user, assistant, user, assistant
Paired(messages) ==
    /\ Len(messages) % 2 = 0
    /\ \A i \in DOMAIN messages :
          messages[i].role = IF i % 2 = 1 THEN "user" ELSE "assistant"

\* C30: in every store state reached through create_new_conversation,
\* get_current_conversation, add_message and cleanup_old_conversations, the
\* calls of add_message that return False included, every conversation of
\* the mapping and every persisted one holds an even number of messages
\* that alternate user, assistant, starting with a user message.
ExchangesArePaired ==
    /\ \A i \in DOMAIN convs : Paired(convs[i].messages)
    /\ \A i \in DOMAIN ss.conversations : Paired(ss.conversations[i].messages)

\* add_message returned False after the reply's model could not be recorded,
\* and the conversation holds the exchange all the same
FailedExchangeWitness ==
    /\ last.op = "add_message"
    /\ last.ret = FALSE
    /\ Resolves
    /\ Selected.messages # <<>>
    /\ "models_used" \notin Selected.metadata.has

\* ------------------------------ two stores over one session state
\* CogniVerse.__init__ builds a ChatManager and a Sidebar, and Sidebar.__init__
\* builds a ChatManager of its own: convs is the mapping of the first, sconvs
\* the mapping of the second, ss the session state both save to. A script
\* run renders the sidebar, then the chat interface; one widget fires in a
\* run.

SidebarDaysOld == 30

\* the ids of the persisted mapping
PersistedIds(s) == {s.conversations[i].id : i \in DOMAIN s.conversations}

NoHistory == [main |-> {}, sidebar |-> {}]

\* the start of a script run
RunStart ==
    [op |-> "run", who |-> "none", phase |-> "start", ret |-> NoneId,
     raised |-> FALSE, made |-> NoHistory, removed |-> NoHistory]

\* CogniVerse(): both stores load the session state, whose defaults are set;
\* the persisted entries were written at time 0, more than 30 days ago
TwoInit ==
    /\ now = Days(SidebarDaysOld) + 1
    /\ nextId = FirstFreeId
    /\ \E n \in 0..MaxPreloaded :
       \E shapes \in [1..n -> EntryShapes],
          cur \in {NoneId, StaleId} \cup {3 * k - 2 : k \in 1..n} :
          ss = [has_conversations |-> TRUE,
                conversations |->
                    [k \in 1..n |-> PersistedEntry(k, shapes[k][1], shapes[k][2])],
                has_current |-> TRUE, current |-> cur]
    /\ convs = LoadFromSessionState(ss)
    /\ sconvs = LoadFromSessionState(ss)
    /\ last = RunStart

\* the store of the sidebar
SideState == [convs |-> sconvs, ss |-> ss, nextId |-> nextId]

\* whether get_current_conversation of a store with mapping cs would not
\* create a conversation
ResolvesIn(cs) ==
    /\ ss.has_current
    /\ ss.current # NoneId
    /\ HasConv(cs, ss.current)

\* what the run remembers of a call r made by who: the conversations it
\* created and persisted, and the ones its cleanup took out of the
\* persisted mapping
Remember(r, who, op) ==
    [op |-> op, who |-> who, phase |-> last.phase, ret |-> r.ret,
     raised |-> r.raised,
     made |-> [last.made EXCEPT ![who] =
                  @ \cup {id \in PersistedIds(r.ss) : id >= nextId}],
     removed |-> [last.removed EXCEPT ![who] =
                  @ \cup IF op = "cleanup_old_conversations"
                         THEN PersistedIds(ss) \ PersistedIds(r.ss)
                         ELSE {}]]

\* a call r of one store, after which the script goes on; an exception that
\* escapes ends the run
TwoReturned(r, who, op, phase) ==
    /\ convs' = IF who = "main" THEN r.convs ELSE convs
    /\ sconvs' = IF who = "sidebar" THEN r.convs ELSE sconvs
    /\ ss' = r.ss
    /\ nextId' = r.nextId
    /\ last' = [Remember(r, who, op) EXCEPT
                   !.phase = IF r.raised THEN "done" ELSE phase]
    /\ UNCHANGED <<now, conv, cpre, clast, tin, tout, fin, fout, gw, gclock, glast, ghist>>

\* a call r of one store followed by st.rerun(): the script starts again
\* and both stores are built anew over the session state
TwoReturnedRerun(r, who, op) ==
    IF r.raised THEN TwoReturned(r, who, op, "done")
    ELSE /\ convs' = LoadFromSessionState(r.ss)
         /\ sconvs' = LoadFromSessionState(r.ss)
         /\ ss' = InitializeSessionState(r.ss, r.nextId)
         /\ nextId' = r.nextId
         /\ last' = [RunStart EXCEPT !.op = op, !.who = who, !.ret = r.ret]
         /\ UNCHANGED <<now, conv, cpre, clast, tin, tout, fin, fout, gw, gclock, glast, ghist>>

\* Sidebar._render_quick_actions, "New Chat"
SideNewChat ==
    /\ last.phase = "start"
    /\ Len(sconvs) < MaxConvs
    /\ CanDraw(1)
    /\ TwoReturnedRerun(CreateNewConversation(SideState, DefaultTitle, now),
                        "sidebar", "create_new_conversation")

\* Sidebar._handle_export_action: get_current_conversation, then the export
\* of the conversation it returned; an exception is caught and shown
SideExport ==
    /\ last.phase = "start"
    /\ ResolvesIn(sconvs) \/ (Len(sconvs) < MaxConvs /\ CanDraw(1))
    /\ LET r == GetCurrentConversation(SideState, now)
       IN  TwoReturned([r EXCEPT !.raised = FALSE], "sidebar",
                       "get_current_conversation", "sidebar")

\* Sidebar, "Clean Old Data"
SideCleanup ==
    /\ last.phase = "start"
    /\ sconvs # <<>>
    /\ TwoReturned(CleanupOldConversations(SideState, SidebarDaysOld, now),
                   "sidebar", "cleanup_old_conversations", "sidebar")

\* Sidebar._render_quick_actions, "Clear History" confirmed
SideClearHistory ==
    /\ last.phase = "start"
    /\ ss.conversations # <<>>
    /\ convs' = <<>>
    /\ sconvs' = <<>>
    /\ ss' = [has_conversations |-> TRUE, conversations |-> <<>>,
              has_current |-> TRUE, current |-> NoneId]
    /\ last' = [RunStart EXCEPT !.op = "clear_history", !.who = "sidebar"]
    /\ UNCHANGED <<now, nextId, conv, cpre, clast, tin, tout, fin, fout, gw, gclock, glast, ghist>>

\* CogniVerse._render_chat_interface, "New Chat"
MainNewChat ==
    /\ last.phase = "start"
    /\ Len(convs) < MaxConvs
    /\ CanDraw(1)
    /\ TwoReturnedRerun(CreateNewConversation(StoreState, DefaultTitle, now),
                        "main", "create_new_conversation")

\* CogniVerse._display_chat_history, after the sidebar was rendered
MainShow ==
    /\ last.phase \in {"start", "sidebar"}
    /\ ResolvesIn(convs) \/ (Len(convs) < MaxConvs /\ CanDraw(1))
    /\ TwoReturned(GetCurrentConversation(StoreState, now), "main",
                   "get_current_conversation",
                   IF last.phase = "start" THEN "shown" ELSE "end")

\* CogniVerse._process_user_input on a chat input: add_message, st.rerun()
MainSay ==
    /\ last.phase = "shown"
    /\ Len(convs[IndexOfConv(convs, ss.current)].messages) + 2 <= MaxMsgs
    /\ CanDraw(2)
    /\ \E model_used \in StoreModels :
          TwoReturnedRerun(AddMessage(StoreState, Hi, Ok, model_used, now),
                           "main", "add_message")

\* the next script run, whatever started it
TwoRerun ==
    /\ last.phase # "start"
    /\ convs' = LoadFromSessionState(ss)
    /\ sconvs' = LoadFromSessionState(ss)
    /\ ss' = InitializeSessionState(ss, nextId)
    /\ last' = RunStart
    /\ UNCHANGED <<now, nextId, conv, cpre, clast, tin, tout, fin, fout, gw, gclock, glast, ghist>>

\* the chat store and the sidebar's store
InitTwo == TwoInit /\ IdleConv /\ IdleTitle /\ IdleFile /\ IdleGateway
NextTwo ==
    \/ SideNewChat \/ SideExport \/ SideCleanup \/ SideClearHistory
    \/ MainNewChat \/ MainShow \/ MainSay \/ TwoRerun
SpecTwo == InitTwo /\ [][NextTwo]_vars

\* C28: when the chat store and the sidebar's store work over one session
\* state, no create_new_conversation, get_current_conversation or
\* add_message of one store drops from the persisted mapping a conversation
\* the other store created and persisted, and none writes back a
\* conversation the other store's cleanup removed.
NoLostUpdateBetweenStores ==
    [][last'.op \in {"create_new_conversation", "get_current_conversation",
                     "add_message"} =>
          LET other == IF last'.who = "main" THEN "sidebar" ELSE "main"
          IN  /\ \A id \in last.made[other] :
                    id \in PersistedIds(ss) => id \in PersistedIds(ss')
              /\ \A id \in last.removed[other] :
                    id \notin PersistedIds(ss) => id \notin PersistedIds(ss')]_vars

====
